---- MODULE Spec2Model ----
(***************************************************************************)
(* dex_exporter: the Exporter (service registry, service-activity gate and *)
(* the concurrent fan-out/fan-in of Exporter.Collect) and the collectors'  *)
(* stored last readings with their delta computation.                      *)
(*                                                                         *)
(* A uint64 bitmask is modelled as the set of its set bit positions        *)
(* (1 << i is {i}, | is \cup, & is \cap), because 2^63 is no TLC integer.  *)
(* A uint64 counter is modelled as an unsigned integer of CounterBits      *)
(* bits: every subtraction and addition is taken modulo 2^CounterBits.     *)
(*                                                                         *)
(* Spec          the Exporter with the redis, nginx and memcache           *)
(*               collectors: registration, then scrapes.                   *)
(* GateSpec      the Exporter with AddServices calls, constructors that    *)
(*               fail, and answers of the service-status query that leave  *)
(*               out units.                                                *)
(* CollectorSpec one collector on its own (also node and PHP-FPM), its     *)
(*               Collect section by section.                               *)
(* UpdateSpec    one update function on its own, on readings from both     *)
(*               ends of the counter width.                                *)
(* RegistrySpec  AddServices and AddCollector up to and beyond the         *)
(*               capacity of the registry.                                 *)
(* OverlapSpec   the telemetry handler serving several requests at once.   *)
(* UtilSpec      the functions of util.go: ParseURI, BasicAuth and         *)
(*               ListenAndServe, each on its own.                          *)
(* SerialSpec    Redis.updateStats run after run against a backend whose   *)
(*               counters never decrease and whose fetches sometimes fail. *)
(* LiveSpec      the Exporter under fair scheduling, with backend calls    *)
(*               that always end.                                          *)
(* GlobSpec      URIGlobs.Get call after call while sockets appear and     *)
(*               disappear.                                                *)
(***************************************************************************)
EXTENDS Naturals, Integers, Sequences, FiniteSets, Bags, TLC

(***************************************************************************)
(* Bounds of the model.                                                    *)
(***************************************************************************)
\* width of the modelled unsigned counters (uint64 in the source)
CounterBits == 3
\* largest value a backend reports while the exporter is serving scrapes
MaxScrapeValue == 1
\* capacity of the service registry (main.go:254)
MaxServices == 64

Modulus == 2 ^ CounterBits
MaxUint == Modulus - 1
Uint == 0 .. MaxUint

\* systemd unit names a collector may require, and the lists passed to
\* AddServices / AddCollector
ServiceNames == {"redis", "nginx"}
NameLists == {<<>>, <<"redis">>, <<"redis", "nginx">>}

\* ActiveState values reported by systemd
ActiveStates == {"active", "reloading", "inactive"}

\* the collectors main registers, in main's order (main.go:130-161)
KindOrder == <<"nginx", "redis", "memcache">>
Kinds == {KindOrder[k] : k \in DOMAIN KindOrder}

VARIABLES
  phase,            \* "setup" (main registers), "serving", "panicked",
                    \* "exited" (os.Exit during setup)
  services,         \* Exporter.services: the registry, a sequence of names
  collectors,       \* Exporter.collectors: sequence of [Collector, services]
  pc,               \* position of Exporter.Collect: "idle", "launch", "wait"
  activeServices,   \* local activeServices of the running Exporter.Collect
  task,             \* per registered collector: "idle", "running", "done"
  fetch,            \* per registered collector: what its backend answered
  units,            \* the answer of this scrape's ListUnitsByNamesContext
  serviceGauge,     \* children of Exporter.service: map name -> value set
  sink,             \* bag of the metrics received on ch in this scrape
  errs,             \* sources that logged an error in this scrape
  redisStats,       \* Redis.stats
  nginxStats,       \* Nginx.stats
  memcacheStats,    \* Memcache.stats: map server -> memcacheStats
  memcacheMem,      \* children of Memcache.mem: map server -> gauge values
  subject,          \* the collector or update function exercised on its own
  cpc,              \* position of the subject's Collect: "idle" or a section
  failed,           \* sections of the running Collect whose fetch failed
  last,             \* the last update: function, reading before, answer, result
  cpuStat,          \* Node.cpuStat
  netStats,         \* Node.netStats: map interface -> NetDevLine
  diskioStats,      \* Node.diskioStats: map device -> IOStats
  opcacheStats,     \* PHPFPM.opcacheStats
  children,         \* label values of the children of Node.net, Node.disk,
                    \* Node.diskio and PHPFPM.proc
  inflight,         \* per HTTP request: the state of its Exporter.Collect
  call,             \* the last call of a function of util.go: its name,
                    \* its arguments and what it returned or answered
  files,            \* the file system: map path -> [kind, mode]
  lpc,              \* position of ListenAndServe: "idle", "stat", "remove",
                    \* "listen", "chmod", "serving", "returned"
  tally,            \* what the runs of Redis.updateStats returned so far:
                    \* the reading NewRedis stored and the sum of the deltas
  uris              \* Memcache.uris, a URIGlobs: literals with the rest of
                    \* their backing array (spare), and globs

gateVars == <<units, serviceGauge>>
expVars ==
  <<phase, services, collectors, pc, activeServices, task, fetch, gateVars>>
outVars == <<sink, errs>>
colVars == <<redisStats, nginxStats, memcacheStats, memcacheMem>>
unitVars == <<subject, cpc, failed, last, cpuStat, netStats, diskioStats,
              opcacheStats, children>>
reqVars == <<inflight>>
utilVars == <<call, files, lpc>>
serialVars == <<tally>>
globVars == <<uris>>
vars == <<expVars, outVars, colVars, unitVars, reqVars, utilVars, serialVars,
         globVars>>

\* no function of util.go has been called
NoCall == [fn |-> "none"]

\* Redis.updateStats has not run yet
NoTally == [runs |-> "none"]

\* the zero URIGlobs
uriGlobsZero == [literals |-> <<>>, spare |-> <<>>, globs |-> <<>>]

(***************************************************************************)
(* uint64 arithmetic                                                       *)
(***************************************************************************)
\* mutant of Sub64: the difference is clamped at zero instead of wrapping
Sub64Saturating(a, b) == IF a >= b THEN a - b ELSE 0

\* a - b on unsigned integers of CounterBits bits (Go's uint64 `-`)
Sub64(a, b) == (a - b + Modulus) % Modulus
\* a + b on unsigned integers of CounterBits bits (Go's uint64 `+`)
Add64(a, b) == (a + b) % Modulus

(***************************************************************************)
(* Metrics written to the channel; a label is the tuple of label values.   *)
(***************************************************************************)
Sample(src, name, label) == [src |-> src, name |-> name, label |-> label]
ServiceSample(service, active) ==
  [src |-> "exporter", name |-> "node_service_active", label |-> <<service>>,
   value |-> active]

(***************************************************************************)
(* Service registry: Exporter.addServices                                  *)
(***************************************************************************)
\* mutant of Has: the registry is not searched, no name is ever found
HasNever(reg, service) == FALSE

Has(reg, service) == \E i \in 1 .. Len(reg) : reg[i] = service
\* mutant of IndexOf: the bit of a registered name is counted from 1
IndexOfOneBased(reg, service) ==
  CHOOSE i \in 1 .. Len(reg) :
    reg[i] = service /\ \A j \in 1 .. (i - 1) : reg[j] # service

\* 0-based index of the first entry equal to service (the loop breaks there)
IndexOf(reg, service) ==
  (CHOOSE i \in 1 .. Len(reg) :
     reg[i] = service /\ \A j \in 1 .. (i - 1) : reg[j] # service) - 1

RECURSIVE addServicesOffByOne(_, _, _)
\* mutant of addServices: the capacity test is len(e.services) == 65
addServicesOffByOne(reg, names, bits) ==
  IF names = <<>>
  THEN [services |-> reg, bits |-> bits, panic |-> FALSE]
  ELSE LET service == Head(names) IN
       IF Has(reg, service)
       THEN addServicesOffByOne(reg, Tail(names),
                                bits \cup {IndexOf(reg, service)})
       ELSE IF Len(reg) = MaxServices + 1
            THEN [services |-> reg, bits |-> bits, panic |-> TRUE]
            ELSE addServicesOffByOne(Append(reg, service), Tail(names),
                                     bits \cup {Len(reg)})

RECURSIVE addServices(_, _, _)
\* the loop of addServices over the remaining names; reg is e.services so far,
\* bits the accumulated bitmask.  panic is the "too many services" panic.
addServices(reg, names, bits) ==
  IF names = <<>>
  THEN [services |-> reg, bits |-> bits, panic |-> FALSE]
  ELSE LET service == Head(names) IN
       IF Has(reg, service)
       THEN addServices(reg, Tail(names), bits \cup {IndexOf(reg, service)})
       ELSE IF Len(reg) = MaxServices
            THEN [services |-> reg, bits |-> bits, panic |-> TRUE]
            ELSE addServices(Append(reg, service), Tail(names),
                             bits \cup {Len(reg)})

(***************************************************************************)
(* Backend answers.  A fetch either fails (connection refused, timeout,    *)
(* protocol error) or yields the backend's reply.  A numeric field of a    *)
(* reply is text: a decimal number that fits, a decimal number that does   *)
(* not fit in the counter width, or text that is no number.                *)
(***************************************************************************)
FetchErr == [err |-> TRUE]
FetchOK(reply) == [err |-> FALSE, reply |-> reply]
\* the backend cannot be reached: connecting to it fails
Unreachable == [err |-> TRUE, refused |-> TRUE]

Num(n) == [text |-> "num", n |-> n]
TooBig == [text |-> "range"]
Junk == [text |-> "junk"]

\* strconv.ParseUint(val, 10, 64): the value, MaxUint64 on a range error,
\* 0 on a syntax error; ok is err == nil
ParseUint(val) ==
  CASE val.text = "num" -> [n |-> val.n, ok |-> TRUE]
    [] val.text = "range" -> [n |-> MaxUint, ok |-> FALSE]
    [] OTHER -> [n |-> 0, ok |-> FALSE]

(***************************************************************************)
(* Redis (redis.go)                                                        *)
(***************************************************************************)
redisStatsZero ==
  [MemoryUsed |-> 0, MemoryTotal |-> 0, KeyHits |-> 0, KeyMisses |-> 0]

\* redisGetUint64: the parse error is only logged as a warning
redisGetUint64(val) == ParseUint(val).n

\* mutant of RedisUpdateStats: the previous reading is not subtracted
RedisUpdateStatsNoDiff(stats, f) ==
  IF f.err
  THEN [stats |-> stats, ret |-> redisStatsZero, err |-> TRUE]
  ELSE LET cur == [MemoryUsed |-> redisGetUint64(f.reply.used_memory),
                   MemoryTotal |-> redisGetUint64(f.reply.maxmemory),
                   KeyHits |-> redisGetUint64(f.reply.keyspace_hits),
                   KeyMisses |-> redisGetUint64(f.reply.keyspace_misses)]
       IN [stats |-> cur, ret |-> cur, err |-> FALSE]

\* Redis.updateStats: f is the answer of client.Do("INFO", "ALL"); the result
\* is the new e.stats, the returned redisStats and whether an error is returned
RedisUpdateStats(stats, f) ==
  IF f.err
  THEN [stats |-> stats, ret |-> redisStatsZero, err |-> TRUE]
  ELSE LET cur == [MemoryUsed |-> redisGetUint64(f.reply.used_memory),
                   MemoryTotal |-> redisGetUint64(f.reply.maxmemory),
                   KeyHits |-> redisGetUint64(f.reply.keyspace_hits),
                   KeyMisses |-> redisGetUint64(f.reply.keyspace_misses)]
           diff == [cur EXCEPT !.KeyHits = Sub64(cur.KeyHits, stats.KeyHits),
                               !.KeyMisses = Sub64(cur.KeyMisses, stats.KeyMisses)]
       IN [stats |-> cur, ret |-> diff, err |-> FALSE]

\* mutant of RedisCollect: the else is missing, the metrics are sent on ch
\* after an error too
RedisCollectNoElse(u) ==
  [samples |->
     {[src |-> "redis", name |-> "redis_mem_bytes", label |-> <<"used">>,
       value |-> u.ret.MemoryUsed],
      [src |-> "redis", name |-> "redis_mem_bytes", label |-> <<"total">>,
       value |-> u.ret.MemoryTotal],
      Sample("redis", "redis_key_total", <<"hits">>),
      Sample("redis", "redis_key_total", <<"misses">>)},
   logged |-> u.err]

\* Redis.Collect after updateStats returned u: the metrics sent on ch and
\* whether Error.Println is called
RedisCollect(u) ==
  IF u.err
  THEN [samples |-> {}, logged |-> TRUE]
  ELSE [samples |->
          {[src |-> "redis", name |-> "redis_mem_bytes", label |-> <<"used">>,
            value |-> u.ret.MemoryUsed],
           [src |-> "redis", name |-> "redis_mem_bytes", label |-> <<"total">>,
            value |-> u.ret.MemoryTotal],
           Sample("redis", "redis_key_total", <<"hits">>),
           Sample("redis", "redis_key_total", <<"misses">>)},
        logged |-> FALSE]

(***************************************************************************)
(* Nginx (nginx.go)                                                        *)
(***************************************************************************)
nginxStatsZero ==
  [Active |-> 0, Accepted |-> 0, Handled |-> 0, Requests |-> 0,
   Reading |-> 0, Writing |-> 0, Waiting |-> 0]

\* intDiff(prev, cur): the difference cur - prev of two uint64 readings
intDiff(prev, cur) == Sub64(cur, prev)

\* fmt.Fscanf of the stub_status page against templateMetrics: every %d must
\* scan into its uint64, else an error is returned
NginxScan(reply) ==
  LET fields == {"Active", "Accepted", "Handled", "Requests",
                 "Reading", "Writing", "Waiting"}
  IN IF \A k \in fields : ParseUint(reply[k]).ok
     THEN [ok |-> TRUE, cur |-> [k \in fields |-> ParseUint(reply[k]).n]]
     ELSE [ok |-> FALSE, cur |-> nginxStatsZero]

\* mutant of NginxUpdateStats: the reset branch is missing
NginxUpdateStatsNoReset(stats, f) ==
  IF f.err
  THEN [stats |-> stats, ret |-> nginxStatsZero, err |-> TRUE]
  ELSE LET scan == NginxScan(f.reply)
           cur == scan.cur
       IN IF ~scan.ok
          THEN [stats |-> stats, ret |-> nginxStatsZero, err |-> TRUE]
          ELSE [stats |-> cur,
                ret |-> [cur EXCEPT
                           !.Accepted = intDiff(stats.Accepted, cur.Accepted),
                           !.Handled = intDiff(stats.Handled, cur.Handled),
                           !.Requests = intDiff(stats.Requests, cur.Requests)],
                err |-> FALSE]

\* Nginx.updateStats: f is the answer of client.Get
NginxUpdateStats(stats, f) ==
  IF f.err
  THEN [stats |-> stats, ret |-> nginxStatsZero, err |-> TRUE]
  ELSE LET scan == NginxScan(f.reply)
           cur == scan.cur
       IN IF ~scan.ok
          THEN [stats |-> stats, ret |-> nginxStatsZero, err |-> TRUE]
          ELSE IF /\ cur.Accepted < stats.Accepted
                  /\ cur.Handled < stats.Handled
                  /\ cur.Requests < stats.Requests
               THEN \* nginx was reset
                    [stats |-> cur, ret |-> cur, err |-> FALSE]
               ELSE [stats |-> cur,
                     ret |-> [cur EXCEPT
                                !.Accepted = intDiff(stats.Accepted, cur.Accepted),
                                !.Handled = intDiff(stats.Handled, cur.Handled),
                                !.Requests = intDiff(stats.Requests, cur.Requests)],
                     err |-> FALSE]

\* mutant of NginxCollect: the error of updateStats is dropped, not logged
NginxCollectNoLog(u) ==
  [samples |-> IF u.err THEN {} ELSE {Sample("nginx", "nginx_requests_total", <<>>)},
   logged |-> FALSE]

\* Nginx.Collect after updateStats returned u
NginxCollect(u) ==
  IF u.err
  THEN [samples |-> {}, logged |-> TRUE]
  ELSE [samples |-> {Sample("nginx", "nginx_requests_total", <<>>)},
        logged |-> FALSE]

(***************************************************************************)
(* Memcache (memcache.go)                                                  *)
(***************************************************************************)
HitKeys == 1 .. 6   \* get, delete, incr, decr, cas, touch

\* memcacheGetUint64: the parse error is only logged as a warning
memcacheGetUint64(val) == ParseUint(val).n

RECURSIVE memcacheSum(_, _)
memcacheSum(vals, i) ==
  IF i = 0 THEN 0 ELSE Add64(memcacheSum(vals, i - 1), memcacheGetUint64(vals[i]))
\* memcacheSumUint64: the uint64 sum of the six listed keys
memcacheSumUint64(vals) == memcacheSum(vals, Len(vals))

\* the memcacheStats built from one server's stats (memcache.go:96-100)
MemcacheCur(stat) ==
  [MemoryUsed |-> memcacheGetUint64(stat.bytes),
   MemoryTotal |-> memcacheGetUint64(stat.limit_maxbytes),
   KeyHits |-> memcacheSumUint64(stat.hits),
   KeyMisses |-> memcacheSumUint64(stat.misses)]

\* mutant of MemcacheUpdateStats: e.stats is replaced by the current reading,
\* the servers that did not answer are forgotten
MemcacheUpdateStatsForgets(stats, f) ==
  IF f.err
  THEN [stats |-> stats, ret |-> <<>>, err |-> TRUE]
  ELSE LET addrs == DOMAIN f.reply
           seen == addrs \cap DOMAIN stats
       IN [stats |-> [name \in addrs |-> MemcacheCur(f.reply[name])],
           ret |-> [name \in seen |->
                      LET cur == MemcacheCur(f.reply[name])
                          prev == stats[name]
                      IN [cur EXCEPT !.KeyHits = Sub64(cur.KeyHits, prev.KeyHits),
                                     !.KeyMisses = Sub64(cur.KeyMisses, prev.KeyMisses)]],
           err |-> FALSE]

\* Memcache.updateStats: f is the answer of memcache.New + client.Stats, a
\* map from the servers that answered to their stats; e.stats and the
\* returned diffs are maps too (functions on the servers they hold)
MemcacheUpdateStats(stats, f) ==
  IF f.err
  THEN [stats |-> stats, ret |-> <<>>, err |-> TRUE]
  ELSE LET addrs == DOMAIN f.reply
           seen == addrs \cap DOMAIN stats
       IN [stats |-> [name \in addrs \cup DOMAIN stats |->
                        IF name \in addrs THEN MemcacheCur(f.reply[name])
                        ELSE stats[name]],
           ret |-> [name \in seen |->
                      LET cur == MemcacheCur(f.reply[name])
                          prev == stats[name]
                      IN [cur EXCEPT !.KeyHits = Sub64(cur.KeyHits, prev.KeyHits),
                                     !.KeyMisses = Sub64(cur.KeyMisses, prev.KeyMisses)]],
           err |-> FALSE]

\* the children of Memcache.mem after the loop of Memcache.Collect: mem maps
\* a server to the gauge values last set for it; a child is never removed
MemcacheSetMem(mem, u) ==
  IF u.err THEN mem
  ELSE [server \in DOMAIN mem \cup DOMAIN u.ret |->
          IF server \in DOMAIN u.ret
          THEN [used |-> u.ret[server].MemoryUsed, total |-> u.ret[server].MemoryTotal]
          ELSE mem[server]]

\* Memcache.Collect after updateStats returned u; mem is Memcache.mem before
MemcacheCollect(mem, u) ==
  IF u.err
  THEN [samples |-> {}, logged |-> TRUE]
  ELSE LET after == MemcacheSetMem(mem, u)
       IN [samples |->
             UNION {{[src |-> "memcache", name |-> "memcache_mem_bytes",
                      label |-> <<"used", server>>, value |-> after[server].used],
                     [src |-> "memcache", name |-> "memcache_mem_bytes",
                      label |-> <<"total", server>>, value |-> after[server].total],
                     Sample("memcache", "memcache_key_total", <<"hits", server>>),
                     Sample("memcache", "memcache_key_total", <<"misses", server>>)}
                    : server \in DOMAIN after},
           logged |-> FALSE]

(***************************************************************************)
(* Node (node.go).  Node.Collect reads five sources one after the other,   *)
(* each with its own error branch.                                         *)
(***************************************************************************)
CPUFields ==
  {"User", "Nice", "System", "Idle", "Iowait", "IRQ", "SoftIRQ", "Steal",
   "Guest", "GuestNice"}
CPUModes == {"system", "user", "iowait", "idle", "rest"}
cpuStatZero == [k \in CPUFields |-> 0]

\* the += loop over stat.CPU of updateCPUStat, for field k
RECURSIVE cpuSum(_, _, _)
cpuSum(cpus, k, i) ==
  IF i = 0 THEN 0 ELSE cpuSum(cpus, k, i - 1) + cpus[i][k]

\* Node.updateCPUStat: f is the answer of proc.Stat, one CPUStat per CPU.
\* The fields are float64: the difference is signed and does not wrap
NodeUpdateCPUStat(stat, f) ==
  IF f.err
  THEN [stats |-> stat, ret |-> cpuStatZero, err |-> TRUE]
  ELSE LET cur == [k \in CPUFields |-> cpuSum(f.reply, k, Len(f.reply))]
       IN [stats |-> cur,
           ret |-> [k \in CPUFields |-> cur[k] - stat[k]],
           err |-> FALSE]

NetDevFields ==
  {"RxBytes", "RxPackets", "RxErrors", "RxDropped", "RxFIFO", "RxFrame",
   "RxCompressed", "RxMulticast", "TxBytes", "TxPackets", "TxErrors",
   "TxDropped", "TxFIFO", "TxCollisions", "TxCarrier", "TxCompressed"}
netDevLineZero == [k \in NetDevFields |-> 0]

\* cur[netif] on a Go map: the zero NetDevLine when netif is no key of cur
NetDevAt(cur, netif) ==
  IF netif \in DOMAIN cur THEN cur[netif] ELSE netDevLineZero

\* Node.updateNetStats: f is the answer of proc.NetDev; the loop ranges over
\* the interfaces of the stored reading e.netStats
NodeUpdateNetStats(stats, f) ==
  IF f.err
  THEN [stats |-> stats, ret |-> <<>>, err |-> TRUE]
  ELSE [stats |-> f.reply,
        ret |-> [netif \in DOMAIN stats |->
                   [k \in NetDevFields |->
                      Sub64(NetDevAt(f.reply, netif)[k], stats[netif][k])]],
        err |-> FALSE]

IOStatsFields ==
  {"ReadIOs", "ReadMerges", "ReadSectors", "ReadTicks", "WriteIOs",
   "WriteMerges", "WriteSectors", "WriteTicks", "IOsInProgress",
   "IOsTotalTicks", "WeightedIOTicks", "DiscardIOs", "DiscardMerges",
   "DiscardSectors", "DiscardTicks", "FlushRequestsCompleted",
   "TimeSpentFlushing"}
ioStatsZero == [k \in IOStatsFields |-> 0]

\* mutant of IOStatsAt: an unknown device is looked up under another device
IOStatsAtAnyDevice(stats, name) ==
  IF name \in DOMAIN stats THEN stats[name]
  ELSE IF DOMAIN stats # {} THEN stats[CHOOSE d \in DOMAIN stats : TRUE]
  ELSE ioStatsZero

\* e.diskioStats[name] on a Go map: the zero IOStats for an unknown device
IOStatsAt(stats, name) ==
  IF name \in DOMAIN stats THEN stats[name] ELSE ioStatsZero

\* Node.updateDiskIOStats: f is the answer of blockdevice.ProcDiskstats, here
\* a map from the device name to its IOStats; the loop ranges over the
\* devices of the current reading
NodeUpdateDiskIOStats(stats, f) ==
  IF f.err
  THEN [stats |-> stats, ret |-> <<>>, err |-> TRUE]
  ELSE LET devs == DOMAIN f.reply
       IN [stats |-> [name \in devs \cup DOMAIN stats |->
                        IF name \in devs THEN f.reply[name] ELSE stats[name]],
           ret |-> [name \in devs |->
                      [k \in IOStatsFields |->
                         Sub64(f.reply[name][k], IOStatsAt(stats, name)[k])]],
           err |-> FALSE]

\* label values of the children of the vectors with labels taken from the
\* readings; a child, once created by WithLabelValues, is never removed
childrenZero == [net |-> {}, disk |-> {}, diskio |-> {}, proc |-> {}]

\* the cpu part of Node.Collect after updateCPUStat returned u (node.go:93-103)
NodeCollectCPU(u) ==
  IF u.err
  THEN [samples |-> {}, logged |-> TRUE]
  ELSE [samples |-> {Sample("node", "node_cpu_seconds_total", <<mode>>)
                       : mode \in CPUModes},
        logged |-> FALSE]

\* the mem/swap part after proc.Meminfo answered f (node.go:107-123)
NodeCollectMem(f) ==
  IF f.err
  THEN [samples |-> {}, logged |-> TRUE]
  ELSE [samples |->
          {Sample("node", "node_mem_bytes", <<type>>)
             : type \in {"total", "used", "free", "shared", "buffers",
                         "cache", "available"}}
          \cup {Sample("node", "node_swap_bytes", <<type>>)
                  : type \in {"total", "used"}},
        logged |-> FALSE]

\* the children of Node.net after the loop over the returned deltas
NodeNetChildren(ch, u) ==
  IF u.err THEN ch ELSE ch \cup {netif \in DOMAIN u.ret : netif # "lo"}

\* the net part after updateNetStats returned u (node.go:127-138)
NodeCollectNet(ch, u) ==
  IF u.err
  THEN [samples |-> {}, logged |-> TRUE]
  ELSE [samples |-> {Sample("node", "node_net_bytes_total", <<netif, type>>)
                       : netif \in NodeNetChildren(ch, u), type \in {"rx", "tx"}},
        logged |-> FALSE]

\* the children of Node.disk after readDiskStats answered f
NodeDiskChildren(ch, f) ==
  IF f.err THEN ch ELSE ch \cup DOMAIN f.reply

\* the disk part after readDiskStats answered f (node.go:142-155)
NodeCollectDisk(ch, f) ==
  IF f.err
  THEN [samples |-> {}, logged |-> TRUE]
  ELSE [samples |->
          {Sample("node", "node_disk_kilobytes", <<d[1], d[2], type>>)
             : d \in NodeDiskChildren(ch, f),
               type \in {"total", "used", "free", "available"}},
        logged |-> FALSE]

\* the children of Node.diskio after the loop over the returned deltas
NodeDiskIOChildren(ch, u) ==
  IF u.err THEN ch ELSE ch \cup DOMAIN u.ret

\* the diskio part after updateDiskIOStats returned u (node.go:159-170)
NodeCollectDiskIO(ch, u) ==
  IF u.err
  THEN [samples |-> {}, logged |-> TRUE]
  ELSE [samples |->
          {Sample("node", "node_diskio_seconds_total", <<device, type>>)
             : device \in NodeDiskIOChildren(ch, u),
               type \in {"total", "read", "write"}},
        logged |-> FALSE]

(***************************************************************************)
(* PHPFPM (unnamed/part_005)                                               *)
(***************************************************************************)
opcacheStatsZero ==
  [MemoryUsed |-> 0, MemoryTotal |-> 0, InternedStringsMemoryUsed |-> 0,
   InternedStringsMemoryTotal |-> 0, KeyHits |-> 0, KeyMisses |-> 0]

\* phpfpmGetUint64: the parse error is only logged as a warning
phpfpmGetUint64(val) == ParseUint(val).n

\* PHPFPM.updateStats: f is the sequence of the answers of getURL, one per
\* status URI; the first failed answer ends the loop with its error.  A
\* page gives the pool name ("" when the page has no pool line) and the
\* two process counts; a later page of the same pool replaces an earlier
PHPFPMUpdateStats(f) ==
  IF \E i \in DOMAIN f : f[i].err
  THEN [ret |-> <<>>, err |-> TRUE]
  ELSE LET pools == {f[i].reply.pool : i \in DOMAIN f} \ {""}
           page(pool) ==
             f[CHOOSE i \in DOMAIN f :
                 /\ f[i].reply.pool = pool
                 /\ \A j \in DOMAIN f : f[j].reply.pool = pool => j <= i].reply
       IN [ret |-> [pool \in pools |->
                      [ActiveProcesses |-> phpfpmGetUint64(page(pool).active),
                       TotalProcesses |-> phpfpmGetUint64(page(pool).total)]],
           err |-> FALSE]

\* PHPFPM.updateOPcacheStats: f is the answer of getURL for the OPcache page
PHPFPMUpdateOPcacheStats(stats, f) ==
  IF f.err
  THEN [stats |-> stats, ret |-> opcacheStatsZero, err |-> TRUE]
  ELSE LET used == phpfpmGetUint64(f.reply.used_memory)
           istrUsed == phpfpmGetUint64(f.reply.interned_used_memory)
           cur == [MemoryUsed |-> used,
                   MemoryTotal |->
                     Add64(phpfpmGetUint64(f.reply.free_memory), used),
                   InternedStringsMemoryUsed |-> istrUsed,
                   InternedStringsMemoryTotal |->
                     Add64(phpfpmGetUint64(f.reply.interned_free_memory), istrUsed),
                   KeyHits |-> phpfpmGetUint64(f.reply.hits),
                   KeyMisses |-> phpfpmGetUint64(f.reply.misses)]
       IN [stats |-> cur,
           ret |-> [cur EXCEPT !.KeyHits = Sub64(cur.KeyHits, stats.KeyHits),
                               !.KeyMisses = Sub64(cur.KeyMisses, stats.KeyMisses)],
           err |-> FALSE]

\* the children of PHPFPM.proc after the loop over the returned pools
PHPFPMProcChildren(ch, u) ==
  IF u.err THEN ch ELSE ch \cup DOMAIN u.ret

\* the proc part of PHPFPM.Collect after updateStats returned u
\* (part_005:84-93)
PHPFPMCollectProc(ch, u) ==
  IF u.err
  THEN [samples |-> {}, logged |-> TRUE]
  ELSE [samples |-> {Sample("phpfpm", "phpfpm_proc_count", <<type, pool>>)
                       : type \in {"active", "total"},
                         pool \in PHPFPMProcChildren(ch, u)},
        logged |-> FALSE]

\* the opcache part after updateOPcacheStats returned u (part_005:97-112)
PHPFPMCollectOPcache(u) ==
  IF u.err
  THEN [samples |-> {}, logged |-> TRUE]
  ELSE [samples |->
          {Sample("phpfpm", "phpfpm_opcache_mem_bytes", <<type>>)
             : type \in {"used", "total"}}
          \cup {Sample("phpfpm", "phpfpm_opcache_strings_mem_bytes", <<type>>)
                  : type \in {"used", "total"}}
          \cup {Sample("phpfpm", "phpfpm_opcache_key_total", <<type>>)
                  : type \in {"hits", "misses"}},
        logged |-> FALSE]

\* no update function has run yet
NoUpdate == [fn |-> "none"]

(***************************************************************************)
(* Backend answers while the exporter is set up and serves scrapes         *)
(***************************************************************************)
ScrapeValues == 0 .. MaxScrapeValue
NginxFields ==
  {"Active", "Accepted", "Handled", "Requests", "Reading", "Writing", "Waiting"}
RedisScrapeReplies ==
  {[used_memory |-> Num(v), maxmemory |-> Num(v),
    keyspace_hits |-> Num(v), keyspace_misses |-> Num(v)] : v \in ScrapeValues}
NginxScrapeReplies == {[k \in NginxFields |-> Num(v)] : v \in ScrapeValues}
MemcacheStat(used, total, hits, misses) ==
  [bytes |-> Num(used), limit_maxbytes |-> Num(total),
   hits |-> [k \in HitKeys |-> Num(hits[k])],
   misses |-> [k \in HitKeys |-> Num(misses[k])]]
MemcacheScrapeReplies ==
  {[server \in {"m1"} |->
      MemcacheStat(v, v, <<v, 0, 0, 0, 0, 0>>, <<v, 0, 0, 0, 0, 0>>)]
     : v \in ScrapeValues}
ScrapeFetches(kind) ==
  {FetchErr} \cup
  {FetchOK(r) : r \in CASE kind = "redis" -> RedisScrapeReplies
                        [] kind = "nginx" -> NginxScrapeReplies
                        [] OTHER -> MemcacheScrapeReplies}

(***************************************************************************)
(* Exporter: registration (main.go:244-282) and main's start-up            *)
(***************************************************************************)
Registered == {collectors[i].Collector : i \in 1 .. Len(collectors)}
AllIdle(n) == [i \in 1 .. n |-> "idle"]
NoFetch(n) == [i \in 1 .. n |-> "none"]

\* mutant of AddServices: the registry is replaced by the names of the call
AddServicesReplacing(names) ==
  /\ phase = "setup"
  /\ services' = names
  /\ UNCHANGED <<phase, collectors, pc, activeServices, task, fetch, gateVars,
                 outVars, colVars, unitVars, reqVars,
                 utilVars, serialVars, globVars>>

\* Exporter.AddServices
AddServices(names) ==
  /\ phase = "setup"
  /\ LET r == addServices(services, names, {})
     IN /\ services' = r.services
        /\ phase' = IF r.panic THEN "panicked" ELSE phase
  /\ UNCHANGED <<collectors, pc, activeServices, task, fetch, gateVars,
                 outVars, colVars, unitVars, reqVars,
                 utilVars, serialVars, globVars>>

\* NewRedis / NewNginx / NewMemcache: the constructor calls updateStats once
\* and drops its result; f is the backend's answer to that first fetch
NewCollector(kind, f) ==
  /\ redisStats' = IF kind = "redis"
                   THEN RedisUpdateStats(redisStatsZero, f).stats ELSE redisStats
  /\ nginxStats' = IF kind = "nginx"
                   THEN NginxUpdateStats(nginxStatsZero, f).stats ELSE nginxStats
  /\ memcacheStats' = IF kind = "memcache"
                      THEN MemcacheUpdateStats(<<>>, f).stats ELSE memcacheStats
  /\ UNCHANGED memcacheMem

\* mutant of AddCollector: the bits returned by addServices are not stored
AddCollectorNoBits(kind, names) ==
  LET r == addServices(services, names, {})
  IN /\ services' = r.services
     /\ IF r.panic
        THEN phase' = "panicked" /\ UNCHANGED <<collectors, task, fetch>>
        ELSE /\ collectors' = Append(collectors,
                                     [Collector |-> kind, services |-> {}])
             /\ task' = AllIdle(Len(collectors) + 1)
             /\ fetch' = NoFetch(Len(collectors) + 1)
             /\ UNCHANGED phase

\* Exporter.AddCollector
AddCollector(kind, names) ==
  LET r == addServices(services, names, {})
  IN /\ services' = r.services
     /\ IF r.panic
        THEN phase' = "panicked" /\ UNCHANGED <<collectors, task, fetch>>
        ELSE /\ collectors' = Append(collectors,
                                     [Collector |-> kind, services |-> r.bits])
             /\ task' = AllIdle(Len(collectors) + 1)
             /\ fetch' = NoFetch(Len(collectors) + 1)
             /\ UNCHANGED phase

\* whether the constructor returns an error when the backend answers its
\* first contact with f: NewRedis connects with redis.Dial and returns its
\* error (redis.go:30-33); NewNginx and NewMemcache build a client without
\* connecting
ConstructorFails(kind, f) == kind = "redis" /\ f = Unreachable

\* main: the constructor of an optional collector returned an error:
\* Error.Println and os.Exit(1) (main.go:130-161)
RegisterExit(kind, f) ==
  /\ phase = "setup"
  /\ \E k \in DOMAIN KindOrder :
       /\ KindOrder[k] = kind
       /\ \A j \in k .. Len(KindOrder) : KindOrder[j] \notin Registered
  /\ ConstructorFails(kind, f)
  /\ phase' = "exited"
  /\ UNCHANGED <<services, collectors, pc, activeServices, task, fetch,
                 gateVars, outVars, colVars, unitVars, reqVars,
                 utilVars, serialVars, globVars>>

\* main: construct a collector and register it; each collector is optional
\* and main goes through them in KindOrder (main.go:130-161)
Register(kind, names, f) ==
  /\ phase = "setup"
  /\ \E k \in DOMAIN KindOrder :
       /\ KindOrder[k] = kind
       /\ \A j \in k .. Len(KindOrder) : KindOrder[j] \notin Registered
  /\ ~ConstructorFails(kind, f)
  /\ NewCollector(kind, f)
  /\ AddCollector(kind, names)
  /\ UNCHANGED <<pc, activeServices, gateVars, outVars, unitVars, reqVars,
                 utilVars, serialVars, globVars>>

\* main: ListenAndServe (main.go:199)
Serve ==
  /\ phase = "setup"
  /\ phase' = "serving"
  /\ UNCHANGED <<services, collectors, pc, activeServices, task, fetch,
                 gateVars, outVars, colVars, unitVars, reqVars,
                 utilVars, serialVars, globVars>>

(***************************************************************************)
(* Exporter.Collect (main.go:291-328)                                      *)
(***************************************************************************)
\* mutant of CollectQueryError: the error is logged but the return is missing
CollectQueryErrorFallsThrough ==
  /\ phase = "serving" /\ pc = "idle"
  /\ errs' = {"systemd"}
  /\ sink' = EmptyBag
  /\ activeServices' = {}
  /\ task' = AllIdle(Len(collectors))
  /\ fetch' = NoFetch(Len(collectors))
  /\ pc' = "launch"
  /\ units' = <<>>
  /\ UNCHANGED <<phase, services, collectors, serviceGauge, colVars, unitVars, reqVars,
                 utilVars, serialVars, globVars>>

\* ListUnitsByNamesContext failed: log and return (main.go:298-302)
CollectQueryError ==
  /\ phase = "serving" /\ pc = "idle"
  /\ errs' = {"systemd"}
  /\ sink' = EmptyBag
  /\ activeServices' = {}
  /\ task' = AllIdle(Len(collectors))
  /\ fetch' = NoFetch(Len(collectors))
  /\ units' = <<>>
  /\ UNCHANGED <<phase, services, collectors, pc, serviceGauge, colVars,
                 unitVars, reqVars,
                 utilVars, serialVars, globVars>>

\* whether the loop counts a unit of the answer as active (main.go:306)
IsActive(unit) == unit.ActiveState \in {"active", "reloading"}

\* the bitmask computed from the answer: bit i for the i-th unit of the
\* answer, counted from 0 (main.go:304-308)
ActiveBits(reply) == {i - 1 : i \in {j \in DOMAIN reply : IsActive(reply[j])}}

\* the children of e.service after the loop: the i-th unit of the answer
\* sets the child labelled e.services[i]; a child set in an earlier scrape
\* stays (main.go:304-310)
ServiceGaugeAfter(gauge, reply) ==
  LET set == {services[i] : i \in DOMAIN reply}
      unitOf(name) == reply[CHOOSE i \in DOMAIN reply : services[i] = name]
  IN [name \in set \cup DOMAIN gauge |->
        IF name \in set
        THEN IF IsActive(unitOf(name)) THEN 1 ELSE 0
        ELSE gauge[name]]

\* the node_service_active metrics sent by e.service.Collect (main.go:312)
ServiceSamples(gauge) ==
  {ServiceSample(name, gauge[name]) : name \in DOMAIN gauge}

\* mutant of CollectQuery: the bitmask is kept across scrapes and the answer
\* only adds bits to it
CollectQueryKeepsBits(reply) ==
  /\ phase = "serving" /\ pc = "idle"
  /\ Len(reply) <= Len(services)
  /\ activeServices' = activeServices \cup ActiveBits(reply)
  /\ serviceGauge' = ServiceGaugeAfter(serviceGauge, reply)
  /\ sink' = SetToBag(ServiceSamples(ServiceGaugeAfter(serviceGauge, reply)))
  /\ errs' = {}
  /\ units' = reply
  /\ task' = AllIdle(Len(collectors))
  /\ fetch' = NoFetch(Len(collectors))
  /\ pc' = "launch"
  /\ UNCHANGED <<phase, services, collectors, colVars, unitVars, reqVars,
                 utilVars, serialVars, globVars>>

\* ListUnitsByNamesContext answered with reply, a sequence of unit statuses
CollectQuery(reply) ==
  /\ phase = "serving" /\ pc = "idle"
  /\ Len(reply) <= Len(services)   \* at most one unit per requested name
  /\ activeServices' = ActiveBits(reply)
  /\ serviceGauge' = ServiceGaugeAfter(serviceGauge, reply)
  /\ sink' = SetToBag(ServiceSamples(ServiceGaugeAfter(serviceGauge, reply)))
  /\ errs' = {}
  /\ units' = reply
  /\ task' = AllIdle(Len(collectors))
  /\ fetch' = NoFetch(Len(collectors))
  /\ pc' = "launch"
  /\ UNCHANGED <<phase, services, collectors, colVars, unitVars, reqVars,
                 utilVars, serialVars, globVars>>

\* the unit statuses of the registered names, one per name, in the order
\* of the request
FullReplies ==
  {[i \in 1 .. Len(services) |->
      [Name |-> services[i], ActiveState |-> states[i]]]
     : states \in [1 .. Len(services) -> ActiveStates]}

\* the condition under which the loop starts a collector (main.go:319)
Launches(required, active) == (required \cap active) = active

\* the loop over e.collectors: one goroutine per collector that passes the
\* condition (main.go:317-326)
CollectLaunch ==
  /\ pc = "launch"
  /\ task' = [i \in 1 .. Len(collectors) |->
                IF Launches(collectors[i].services, activeServices)
                THEN "running" ELSE "idle"]
  /\ pc' = "wait"
  /\ UNCHANGED <<phase, services, collectors, activeServices, fetch,
                 gateVars, outVars, colVars, unitVars, reqVars,
                 utilVars, serialVars, globVars>>

\* mutant of RunCollect: the collectors keep their last reading in one shared
\* place that every Collect stores
RunCollectSharedReading(kind, f) ==
  CASE kind = "redis" ->
         LET u == RedisUpdateStats(redisStats, f)
         IN [redis |-> u.stats, nginx |-> nginxStatsZero, memcache |-> <<>>,
             mem |-> memcacheMem, out |-> RedisCollect(u)]
    [] kind = "nginx" ->
         LET u == NginxUpdateStats(nginxStats, f)
         IN [redis |-> redisStatsZero, nginx |-> u.stats, memcache |-> <<>>,
             mem |-> memcacheMem, out |-> NginxCollect(u)]
    [] OTHER ->
         LET u == MemcacheUpdateStats(memcacheStats, f)
         IN [redis |-> redisStatsZero, nginx |-> nginxStatsZero,
             memcache |-> u.stats,
             mem |-> MemcacheSetMem(memcacheMem, u),
             out |-> MemcacheCollect(memcacheMem, u)]

\* what one collector's Collect does with the backend's answer f: the new
\* stored readings, the metrics sent and whether an error is logged
RunCollect(kind, f) ==
  CASE kind = "redis" ->
         LET u == RedisUpdateStats(redisStats, f)
         IN [redis |-> u.stats, nginx |-> nginxStats, memcache |-> memcacheStats,
             mem |-> memcacheMem, out |-> RedisCollect(u)]
    [] kind = "nginx" ->
         LET u == NginxUpdateStats(nginxStats, f)
         IN [redis |-> redisStats, nginx |-> u.stats, memcache |-> memcacheStats,
             mem |-> memcacheMem, out |-> NginxCollect(u)]
    [] OTHER ->
         LET u == MemcacheUpdateStats(memcacheStats, f)
         IN [redis |-> redisStats, nginx |-> nginxStats, memcache |-> u.stats,
             mem |-> MemcacheSetMem(memcacheMem, u),
             out |-> MemcacheCollect(memcacheMem, u)]

\* mutant of TaskCollect: a send on ch replaces what the other goroutines
\* have sent
TaskCollectOverwrites(i, f) ==
  /\ task[i] = "running"
  /\ LET r == RunCollect(collectors[i].Collector, f)
     IN /\ redisStats' = r.redis
        /\ nginxStats' = r.nginx
        /\ memcacheStats' = r.memcache
        /\ memcacheMem' = r.mem
        /\ sink' = SetToBag(r.out.samples)
        /\ errs' = IF r.out.logged
                   THEN errs \cup {collectors[i].Collector} ELSE errs
  /\ fetch' = [fetch EXCEPT ![i] = IF f.err THEN "err" ELSE "ok"]
  /\ task' = [task EXCEPT ![i] = "done"]
  /\ UNCHANGED <<phase, services, collectors, pc, activeServices, gateVars,
                 unitVars, reqVars,
                 utilVars, serialVars, globVars>>

\* mutant of TaskCollect: a Collect whose fetch failed is run once more
TaskCollectRetries(i, f) ==
  /\ task[i] = "running"
  /\ LET r == RunCollect(collectors[i].Collector, f)
     IN /\ redisStats' = r.redis
        /\ nginxStats' = r.nginx
        /\ memcacheStats' = r.memcache
        /\ memcacheMem' = r.mem
        /\ sink' = sink (+) SetToBag(r.out.samples)
        /\ errs' = IF r.out.logged
                   THEN errs \cup {collectors[i].Collector} ELSE errs
  /\ fetch' = [fetch EXCEPT ![i] = IF f.err THEN "err" ELSE "ok"]
  /\ task' = [task EXCEPT ![i] = IF f.err /\ fetch[i] = "none"
                                  THEN "running" ELSE "done"]
  /\ UNCHANGED <<phase, services, collectors, pc, activeServices, gateVars,
                 unitVars, reqVars,
                 utilVars, serialVars, globVars>>

\* the goroutine of collector i: collector.Collect(ch), then wg.Done
TaskCollect(i, f) ==
  /\ task[i] = "running"
  /\ LET r == RunCollect(collectors[i].Collector, f)
     IN /\ redisStats' = r.redis
        /\ nginxStats' = r.nginx
        /\ memcacheStats' = r.memcache
        /\ memcacheMem' = r.mem
        /\ sink' = sink (+) SetToBag(r.out.samples)
        /\ errs' = IF r.out.logged
                   THEN errs \cup {collectors[i].Collector} ELSE errs
  /\ fetch' = [fetch EXCEPT ![i] = IF f.err THEN "err" ELSE "ok"]
  /\ task' = [task EXCEPT ![i] = "done"]
  /\ UNCHANGED <<phase, services, collectors, pc, activeServices, gateVars,
                 unitVars, reqVars,
                 utilVars, serialVars, globVars>>

\* mutant of WaitGroupDone: wg.Add(1) is called for every registered
\* collector, also for those the loop does not start
WaitGroupCountsAll == \A i \in 1 .. Len(collectors) : task[i] = "done"

\* mutant of WaitGroupDone: Collect returns without wg.Wait
WaitGroupNoWait == TRUE

\* wg.Wait returns once every started goroutine has called wg.Done
WaitGroupDone == \A i \in 1 .. Len(collectors) : task[i] # "running"

\* Exporter.Collect returns (main.go:327-328)
CollectReturn ==
  /\ pc = "wait"
  /\ WaitGroupDone
  /\ pc' = "idle"
  /\ UNCHANGED <<phase, services, collectors, activeServices, task, fetch,
                 gateVars, outVars, colVars, unitVars, reqVars,
                 utilVars, serialVars, globVars>>

Init ==
  /\ phase = "setup"
  /\ services = <<>>
  /\ collectors = <<>>
  /\ pc = "idle"
  /\ activeServices = {}
  /\ task = <<>>
  /\ fetch = <<>>
  /\ units = <<>>
  /\ serviceGauge = <<>>
  /\ sink = EmptyBag
  /\ errs = {}
  /\ redisStats = redisStatsZero
  /\ nginxStats = nginxStatsZero
  /\ memcacheStats = <<>>
  /\ memcacheMem = <<>>
  /\ subject = "none"
  /\ cpc = "idle"
  /\ failed = {}
  /\ last = NoUpdate
  /\ cpuStat = cpuStatZero
  /\ netStats = <<>>
  /\ diskioStats = <<>>
  /\ opcacheStats = opcacheStatsZero
  /\ children = childrenZero
  /\ inflight = <<>>
  /\ call = NoCall /\ files = <<>> /\ lpc = "idle"
  /\ tally = NoTally
  /\ uris = uriGlobsZero

Next ==
  \/ \E kind \in Kinds, names \in NameLists :
       \E f \in ScrapeFetches(kind) : Register(kind, names, f)
  \/ Serve
  \/ CollectQueryError
  \/ \E reply \in FullReplies : CollectQuery(reply)
  \/ CollectLaunch
  \/ \E i \in 1 .. Len(collectors) :
       \E f \in ScrapeFetches(collectors[i].Collector) : TaskCollect(i, f)
  \/ CollectReturn

Spec == Init /\ [][Next]_vars

(***************************************************************************)
(* The exporter with answers of the service-status query that leave out    *)
(* units: systemd answers with the units it could load, in the order of    *)
(* the request.                                                            *)
(***************************************************************************)
\* the units of reply at the positions of keep, in their order
Pick(reply, keep) ==
  [k \in 1 .. Cardinality(keep) |->
     reply[CHOOSE i \in keep : Cardinality({j \in keep : j < i}) = k - 1]]

\* answers with a unit for some of the registered names only
GateReplies ==
  {Pick(reply, keep) : reply \in FullReplies,
                       keep \in SUBSET (1 .. Len(services))}

\* the backends of the collectors fail or answer with idle counters
GateFetches(kind) ==
  {FetchErr,
   FetchOK(CASE kind = "redis" ->
                  [used_memory |-> Num(0), maxmemory |-> Num(0),
                   keyspace_hits |-> Num(0), keyspace_misses |-> Num(0)]
             [] kind = "nginx" -> [k \in NginxFields |-> Num(0)]
             [] OTHER ->
                  [server \in {"m1"} |->
                     MemcacheStat(0, 0, <<0, 0, 0, 0, 0, 0>>,
                                  <<0, 0, 0, 0, 0, 0>>)])}

\* the name lists of the AddServices calls made before main's registrations
GateLists == NameLists \cup {<<"nginx", "redis">>}

\* the outcomes of a constructor's first contact with its backend
StartFetches(kind) == GateFetches(kind) \cup {Unreachable}

GateNext ==
  \/ \E names \in GateLists : AddServices(names)
  \/ \E kind \in Kinds :
       \E f \in StartFetches(kind) :
         \/ \E names \in NameLists : Register(kind, names, f)
         \/ RegisterExit(kind, f)
  \/ Serve
  \/ CollectQueryError
  \/ \E reply \in GateReplies : CollectQuery(reply)
  \/ CollectLaunch
  \/ \E i \in 1 .. Len(collectors) :
       \E f \in GateFetches(collectors[i].Collector) : TaskCollect(i, f)
  \/ CollectReturn

GateSpec == Init /\ [][GateNext]_vars

(***************************************************************************)
(* One collector on its own: its constructor, then Collect again and       *)
(* again, each on a fresh channel.                                         *)
(***************************************************************************)
CollectorKinds == Kinds \cup {"node", "phpfpm"}

\* the sources one Collect of a collector reads, in the order of its code
Sections(kind) ==
  CASE kind = "node" -> <<"cpu", "mem", "net", "disk", "diskio">>
    [] kind = "phpfpm" -> <<"proc", "opcache">>
    [] OTHER -> <<"fetch">>

\* the section after section s of the subject's Collect, "idle" after the last
NextSection(s) ==
  LET secs == Sections(subject)
      i == CHOOSE j \in DOMAIN secs : secs[j] = s
  IN IF i = Len(secs) THEN "idle" ELSE secs[i + 1]

\* answers of /proc and /sys and of the PHP-FPM pages during scrapes
CPUFetches ==
  {FetchErr} \cup
  {FetchOK(cpus) : cpus \in UNION {{<<[k \in CPUFields |-> v]>>,
                                     <<[k \in CPUFields |-> v],
                                       [k \in CPUFields |-> v]>>}
                                      : v \in ScrapeValues}}
MemFetches ==
  {FetchErr} \cup
  {FetchOK([k \in {"MemTotal", "MemAvailable", "MemFree", "Shmem", "Buffers",
                   "Cached", "SReclaimable", "SwapTotal", "SwapFree"} |-> v])
     : v \in ScrapeValues}
NetFetches ==
  {FetchErr} \cup
  {FetchOK([netif \in ifs |-> [k \in NetDevFields |-> v]])
     : ifs \in SUBSET {"lo", "eth0"}, v \in ScrapeValues}
DiskFetches ==
  {FetchErr} \cup
  {FetchOK([d \in disks |-> [Total |-> 1, Free |-> 1, Available |-> 1]])
     : disks \in SUBSET {<<"sda1", "/">>}}
DiskIOFetches ==
  {FetchErr} \cup
  {FetchOK([name \in devs |-> [k \in IOStatsFields |-> v]])
     : devs \in SUBSET {"sda"}, v \in ScrapeValues}
StatusPages ==
  {[pool |-> pool, active |-> Num(v), total |-> Num(v)]
     : pool \in {"", "www"}, v \in ScrapeValues}
StatusAnswers == {FetchErr} \cup {FetchOK(page) : page \in StatusPages}
ProcFetches ==
  {<<>>} \cup {<<a>> : a \in StatusAnswers}
         \cup {<<a, b>> : a \in StatusAnswers, b \in {FetchErr}}
OPcacheReply(v, hits, misses) ==
  [used_memory |-> Num(v), free_memory |-> Num(v),
   interned_used_memory |-> Num(v), interned_free_memory |-> Num(v),
   hits |-> Num(hits), misses |-> Num(misses)]
OPcacheFetches ==
  {FetchErr} \cup {FetchOK(OPcacheReply(v, v, v)) : v \in ScrapeValues}

\* NewNode: updateCPUStat, updateNetStats and updateDiskIOStats run once,
\* their results and errors dropped (node.go:72-74)
NewNode(fcpu, fnet, fio) ==
  /\ cpuStat = NodeUpdateCPUStat(cpuStatZero, fcpu).stats
  /\ netStats = NodeUpdateNetStats(<<>>, fnet).stats
  /\ diskioStats = NodeUpdateDiskIOStats(<<>>, fio).stats

\* NewPHPFPM: updateOPcacheStats runs once (part_005:66)
NewPHPFPM(f) ==
  opcacheStats = PHPFPMUpdateOPcacheStats(opcacheStatsZero, f).stats

\* the subject right after its constructor returned
CollectorInit ==
  /\ phase = "collector"
  /\ services = <<>> /\ collectors = <<>> /\ pc = "idle"
  /\ activeServices = {} /\ task = <<>> /\ fetch = <<>>
  /\ units = <<>> /\ serviceGauge = <<>>
  /\ sink = EmptyBag /\ errs = {}
  /\ subject \in CollectorKinds
  /\ cpc = "idle" /\ failed = {} /\ last = NoUpdate
  /\ children = childrenZero
  /\ inflight = <<>>
  /\ call = NoCall /\ files = <<>> /\ lpc = "idle"
  /\ tally = NoTally
  /\ uris = uriGlobsZero
  /\ memcacheMem = <<>>
  /\ \E f \in ScrapeFetches("redis") :
       redisStats = IF subject = "redis"
                    THEN RedisUpdateStats(redisStatsZero, f).stats
                    ELSE redisStatsZero
  /\ \E f \in ScrapeFetches("nginx") :
       nginxStats = IF subject = "nginx"
                    THEN NginxUpdateStats(nginxStatsZero, f).stats
                    ELSE nginxStatsZero
  /\ \E f \in ScrapeFetches("memcache") :
       memcacheStats = IF subject = "memcache"
                       THEN MemcacheUpdateStats(<<>>, f).stats ELSE <<>>
  /\ IF subject = "node"
     THEN \E fcpu \in CPUFetches, fnet \in NetFetches, fio \in DiskIOFetches :
            NewNode(fcpu, fnet, fio)
     ELSE cpuStat = cpuStatZero /\ netStats = <<>> /\ diskioStats = <<>>
  /\ IF subject = "phpfpm"
     THEN \E f \in OPcacheFetches : NewPHPFPM(f)
     ELSE opcacheStats = opcacheStatsZero

\* what a section of Collect leaves behind: the metrics sent on ch, the
\* logged error, and whether the section's fetch had failed
Emit(src, section, fetchFailed, out) ==
  /\ sink' = sink (+) SetToBag(out.samples)
  /\ errs' = IF out.logged THEN errs \cup {src} ELSE errs
  /\ failed' = IF fetchFailed THEN failed \cup {section} ELSE failed
  /\ cpc' = NextSection(section)

\* Collect(ch) is called with the channel of a new scrape
CollectBegin ==
  /\ subject \in CollectorKinds /\ cpc = "idle"
  /\ sink' = EmptyBag /\ errs' = {} /\ failed' = {}
  /\ cpc' = Sections(subject)[1]
  /\ UNCHANGED <<expVars, utilVars, reqVars, colVars, subject, last, cpuStat, netStats,
                 diskioStats, opcacheStats, children, serialVars,
                 globVars>>

\* Redis.Collect, Nginx.Collect, Memcache.Collect: one fetch
CollectFetch(f) ==
  /\ subject \in Kinds /\ cpc = "fetch"
  /\ LET r == RunCollect(subject, f)
     IN /\ redisStats' = r.redis
        /\ nginxStats' = r.nginx
        /\ memcacheStats' = r.memcache
        /\ memcacheMem' = r.mem
        /\ Emit(subject, "fetch", f.err, r.out)
  /\ UNCHANGED <<expVars, utilVars, reqVars, subject, last, cpuStat, netStats, diskioStats,
                 opcacheStats, children, serialVars, globVars>>

\* Node.Collect, node_cpu (node.go:92-104)
NodeCPU(f) ==
  /\ subject = "node" /\ cpc = "cpu"
  /\ LET u == NodeUpdateCPUStat(cpuStat, f)
     IN /\ cpuStat' = u.stats
        /\ Emit("node", "cpu", f.err, NodeCollectCPU(u))
  /\ UNCHANGED <<expVars, utilVars, reqVars, colVars, subject, last, netStats, diskioStats,
                 opcacheStats, children, serialVars, globVars>>

\* Node.Collect, node_mem and node_swap (node.go:106-124)
NodeMem(f) ==
  /\ subject = "node" /\ cpc = "mem"
  /\ Emit("node", "mem", f.err, NodeCollectMem(f))
  /\ UNCHANGED <<expVars, utilVars, reqVars, colVars, subject, last, cpuStat, netStats,
                 diskioStats, opcacheStats, children, serialVars,
                 globVars>>

\* Node.Collect, node_net (node.go:126-139)
NodeNet(f) ==
  /\ subject = "node" /\ cpc = "net"
  /\ LET u == NodeUpdateNetStats(netStats, f)
     IN /\ netStats' = u.stats
        /\ children' = [children EXCEPT !.net = NodeNetChildren(@, u)]
        /\ Emit("node", "net", f.err, NodeCollectNet(children.net, u))
  /\ UNCHANGED <<expVars, utilVars, reqVars, colVars, subject, last, cpuStat, diskioStats,
                 opcacheStats, serialVars, globVars>>

\* Node.Collect, node_disk (node.go:141-156)
NodeDisk(f) ==
  /\ subject = "node" /\ cpc = "disk"
  /\ children' = [children EXCEPT !.disk = NodeDiskChildren(@, f)]
  /\ Emit("node", "disk", f.err, NodeCollectDisk(children.disk, f))
  /\ UNCHANGED <<expVars, utilVars, reqVars, colVars, subject, last, cpuStat, netStats,
                 diskioStats, opcacheStats, serialVars, globVars>>

\* Node.Collect, node_diskio (node.go:158-171)
NodeDiskIO(f) ==
  /\ subject = "node" /\ cpc = "diskio"
  /\ LET u == NodeUpdateDiskIOStats(diskioStats, f)
     IN /\ diskioStats' = u.stats
        /\ children' = [children EXCEPT !.diskio = NodeDiskIOChildren(@, u)]
        /\ Emit("node", "diskio", f.err, NodeCollectDiskIO(children.diskio, u))
  /\ UNCHANGED <<expVars, utilVars, reqVars, colVars, subject, last, cpuStat, netStats,
                 opcacheStats, serialVars, globVars>>

\* PHPFPM.Collect, phpfpm proc (part_005:83-94)
PHPFPMProc(f) ==
  /\ subject = "phpfpm" /\ cpc = "proc"
  /\ LET u == PHPFPMUpdateStats(f)
     IN /\ children' = [children EXCEPT !.proc = PHPFPMProcChildren(@, u)]
        /\ Emit("phpfpm", "proc", \E i \in DOMAIN f : f[i].err,
                PHPFPMCollectProc(children.proc, u))
  /\ UNCHANGED <<expVars, utilVars, reqVars, colVars, subject, last, cpuStat, netStats,
                 diskioStats, opcacheStats, serialVars, globVars>>

\* PHPFPM.Collect, phpfpm opcache (part_005:96-113)
PHPFPMOPcache(f) ==
  /\ subject = "phpfpm" /\ cpc = "opcache"
  /\ LET u == PHPFPMUpdateOPcacheStats(opcacheStats, f)
     IN /\ opcacheStats' = u.stats
        /\ Emit("phpfpm", "opcache", f.err, PHPFPMCollectOPcache(u))
  /\ UNCHANGED <<expVars, utilVars, reqVars, colVars, subject, last, cpuStat, netStats,
                 diskioStats, children, serialVars, globVars>>

CollectorNext ==
  \/ CollectBegin
  \/ \E f \in ScrapeFetches(subject) : CollectFetch(f)
  \/ \E f \in CPUFetches : NodeCPU(f)
  \/ \E f \in MemFetches : NodeMem(f)
  \/ \E f \in NetFetches : NodeNet(f)
  \/ \E f \in DiskFetches : NodeDisk(f)
  \/ \E f \in DiskIOFetches : NodeDiskIO(f)
  \/ \E f \in ProcFetches : PHPFPMProc(f)
  \/ \E f \in OPcacheFetches : PHPFPMOPcache(f)

CollectorSpec == CollectorInit /\ [][CollectorNext]_vars

(***************************************************************************)
(* One update function on its own: the stored last reading starts as the   *)
(* constructor allocates it, then the function runs again and again (once  *)
(* from the constructor, then once per Collect) on answers whose counters  *)
(* range over both ends of the counter width.                              *)
(***************************************************************************)
UpdateFns == {"redis", "nginx", "memcache", "opcache", "cpu", "net", "diskio"}

\* counter readings: small ones and the largest ones of the counter width
CounterSamples == {0, 1, 2, MaxUint - 1, MaxUint}
EdgeSamples == {0, 1, MaxUint}
CounterTexts == {Num(c) : c \in CounterSamples} \cup {Junk, TooBig}
EdgeTexts == {Num(c) : c \in EdgeSamples}

RedisUpdateFetches ==
  {FetchErr} \cup
  {FetchOK([used_memory |-> Num(v), maxmemory |-> Num(v),
            keyspace_hits |-> hits, keyspace_misses |-> misses])
     : v \in ScrapeValues, hits \in CounterTexts, misses \in EdgeTexts}
NginxUpdateFetches ==
  {FetchErr, FetchOK([k \in NginxFields |-> Junk])} \cup
  {FetchOK([k \in NginxFields |->
              CASE k = "Accepted" -> Num(a)
                [] k = "Handled" -> Num(h)
                [] k = "Requests" -> Num(r)
                [] OTHER -> Num(v)])
     : v \in ScrapeValues, a \in EdgeSamples, h \in EdgeSamples, r \in EdgeSamples}
MemcacheUpdateStat(a, b) ==
  MemcacheStat(1, 2, <<a, b, 0, 0, 0, 0>>, <<a, 0, 0, 0, 0, 0>>)
MemcacheUpdateFetches ==
  {FetchErr} \cup
  UNION {{FetchOK(reply)
            : reply \in [servers -> {MemcacheUpdateStat(a, b)
                                       : a \in EdgeSamples, b \in 0 .. 1}]}
           : servers \in SUBSET {"m1", "m2"}}
OPcacheUpdateFetches ==
  {FetchErr} \cup
  {FetchOK([OPcacheReply(v, 0, 0) EXCEPT !.hits = hits, !.misses = misses])
     : v \in ScrapeValues, hits \in CounterTexts, misses \in EdgeTexts}
NetDevLine(rx, tx) ==
  [k \in NetDevFields |->
     IF k \in {"RxBytes", "RxPackets", "RxErrors", "RxDropped", "RxFIFO",
               "RxFrame", "RxCompressed", "RxMulticast"} THEN rx ELSE tx]
NetUpdateFetches ==
  {FetchErr} \cup
  UNION {{FetchOK(reply)
            : reply \in [ifs -> {NetDevLine(rx, tx)
                                   : rx \in EdgeSamples, tx \in 0 .. 1}]}
           : ifs \in SUBSET {"lo", "eth0"}}
DiskIOUpdateFetches ==
  {FetchErr} \cup
  UNION {{FetchOK(reply)
            : reply \in [devs -> {[k \in IOStatsFields |-> v]
                                    : v \in EdgeSamples}]}
           : devs \in SUBSET {"sda", "sdb"}}

\* the struct of the subject as its constructor allocates it
UpdateInit ==
  /\ phase = "update"
  /\ services = <<>> /\ collectors = <<>> /\ pc = "idle"
  /\ activeServices = {} /\ task = <<>> /\ fetch = <<>>
  /\ units = <<>> /\ serviceGauge = <<>>
  /\ sink = EmptyBag /\ errs = {}
  /\ subject \in UpdateFns
  /\ cpc = "idle" /\ failed = {} /\ last = NoUpdate
  /\ children = childrenZero
  /\ inflight = <<>>
  /\ call = NoCall /\ files = <<>> /\ lpc = "idle"
  /\ tally = NoTally
  /\ uris = uriGlobsZero
  /\ redisStats = redisStatsZero
  /\ nginxStats = nginxStatsZero
  /\ memcacheStats = <<>> /\ memcacheMem = <<>>
  /\ cpuStat = cpuStatZero /\ netStats = <<>> /\ diskioStats = <<>>
  /\ opcacheStats = opcacheStatsZero

\* the record of one run of an update function
Updated(fn, prev, f, u) ==
  [fn |-> fn, prev |-> prev, f |-> f, ret |-> u.ret, err |-> u.err]

\* Redis.updateStats
UpdateRedis(f) ==
  /\ subject = "redis"
  /\ LET u == RedisUpdateStats(redisStats, f)
     IN redisStats' = u.stats /\ last' = Updated("redis", redisStats, f, u)
  /\ UNCHANGED <<expVars, utilVars, reqVars, outVars, nginxStats, memcacheStats, memcacheMem,
                 subject, cpc, failed, cpuStat, netStats, diskioStats,
                 opcacheStats, children, serialVars, globVars>>

\* Nginx.updateStats
UpdateNginx(f) ==
  /\ subject = "nginx"
  /\ LET u == NginxUpdateStats(nginxStats, f)
     IN nginxStats' = u.stats /\ last' = Updated("nginx", nginxStats, f, u)
  /\ UNCHANGED <<expVars, utilVars, reqVars, outVars, redisStats, memcacheStats, memcacheMem,
                 subject, cpc, failed, cpuStat, netStats, diskioStats,
                 opcacheStats, children, serialVars, globVars>>

\* Memcache.updateStats
UpdateMemcache(f) ==
  /\ subject = "memcache"
  /\ LET u == MemcacheUpdateStats(memcacheStats, f)
     IN /\ memcacheStats' = u.stats
        /\ last' = Updated("memcache", memcacheStats, f, u)
  /\ UNCHANGED <<expVars, utilVars, reqVars, outVars, redisStats, nginxStats, memcacheMem,
                 subject, cpc, failed, cpuStat, netStats, diskioStats,
                 opcacheStats, children, serialVars, globVars>>

\* PHPFPM.updateOPcacheStats
UpdateOPcache(f) ==
  /\ subject = "opcache"
  /\ LET u == PHPFPMUpdateOPcacheStats(opcacheStats, f)
     IN /\ opcacheStats' = u.stats
        /\ last' = Updated("opcache", opcacheStats, f, u)
  /\ UNCHANGED <<expVars, utilVars, reqVars, outVars, colVars, subject, cpc, failed, cpuStat,
                 netStats, diskioStats, children, serialVars, globVars>>

\* Node.updateCPUStat
UpdateCPU(f) ==
  /\ subject = "cpu"
  /\ LET u == NodeUpdateCPUStat(cpuStat, f)
     IN cpuStat' = u.stats /\ last' = Updated("cpu", cpuStat, f, u)
  /\ UNCHANGED <<expVars, utilVars, reqVars, outVars, colVars, subject, cpc, failed,
                 netStats, diskioStats, opcacheStats, children, serialVars,
                 globVars>>

\* Node.updateNetStats
UpdateNet(f) ==
  /\ subject = "net"
  /\ LET u == NodeUpdateNetStats(netStats, f)
     IN netStats' = u.stats /\ last' = Updated("net", netStats, f, u)
  /\ UNCHANGED <<expVars, utilVars, reqVars, outVars, colVars, subject, cpc, failed, cpuStat,
                 diskioStats, opcacheStats, children, serialVars,
                 globVars>>

\* Node.updateDiskIOStats
UpdateDiskIO(f) ==
  /\ subject = "diskio"
  /\ LET u == NodeUpdateDiskIOStats(diskioStats, f)
     IN /\ diskioStats' = u.stats
        /\ last' = Updated("diskio", diskioStats, f, u)
  /\ UNCHANGED <<expVars, utilVars, reqVars, outVars, colVars, subject, cpc, failed, cpuStat,
                 netStats, opcacheStats, children, serialVars, globVars>>

UpdateNext ==
  \/ \E f \in RedisUpdateFetches : UpdateRedis(f)
  \/ \E f \in NginxUpdateFetches : UpdateNginx(f)
  \/ \E f \in MemcacheUpdateFetches : UpdateMemcache(f)
  \/ \E f \in OPcacheUpdateFetches : UpdateOPcache(f)
  \/ \E f \in CPUFetches : UpdateCPU(f)
  \/ \E f \in NetUpdateFetches : UpdateNet(f)
  \/ \E f \in DiskIOUpdateFetches : UpdateDiskIO(f)

UpdateSpec == UpdateInit /\ [][UpdateNext]_vars

(***************************************************************************)
(* The registry on its own: main's registrations (AddServices and          *)
(* AddCollector) with lists of names that fill the registry up to and      *)
(* beyond its capacity.                                                    *)
(***************************************************************************)
\* number of names registered by one of the long lists
BlockLen == 21

\* the i-th of MaxServices + 1 distinct service names
ServiceName(i) == ToString(i)

\* the names first + 1 .. first + n, in that order
ServiceBlock(first, n) == [i \in 1 .. n |-> ServiceName(first + i)]

\* the lists of names of the registrations: no name, one name, two names,
\* one name twice, three lists that together hold the first
\* MaxServices - 1 names, and lists with the names that reach and exceed
\* the capacity
RegistryLists ==
  {<<>>,
   <<ServiceName(1)>>,
   <<ServiceName(1), ServiceName(2)>>,
   <<ServiceName(1), ServiceName(1)>>,
   ServiceBlock(0, BlockLen),
   ServiceBlock(BlockLen, BlockLen),
   ServiceBlock(2 * BlockLen, MaxServices - 1 - 2 * BlockLen),
   <<ServiceName(MaxServices)>>,
   <<ServiceName(MaxServices), ServiceName(MaxServices + 1)>>}

\* the collector main registers during these registrations: the last one
RegistryKinds == {KindOrder[Len(KindOrder)]}

\* the first fetch of the constructors during these registrations
RegistryFetches == {FetchErr}

RegistryNext ==
  \/ \E names \in RegistryLists : AddServices(names)
  \/ \E kind \in RegistryKinds, names \in RegistryLists :
       \E f \in RegistryFetches : Register(kind, names, f)

RegistrySpec == Init /\ [][RegistryNext]_vars

(***************************************************************************)
(* The telemetry handler under overlapping requests (main.go:196-205).     *)
(* net/http serves every request on a goroutine of its own and             *)
(* promhttp.HandlerOpts{} sets no MaxRequestsInFlight, so each request in  *)
(* Requests runs its own Exporter.Collect with its own activeServices, wg  *)
(* and ch; e.service and the collectors' stored readings are shared.       *)
(* Exporter.Collect takes no lock (e.mu is held by AddServices and         *)
(* AddCollector only).  Redis.updateStats reads e.stats and writes it      *)
(* without synchronisation: the read and the write are separate steps.     *)
(***************************************************************************)
\* number of requests the telemetry handler serves at the same time
MaxRequests == 2
Requests == 1 .. MaxRequests
OverlapKinds == {KindOrder[2]}
OverlapFetches == ScrapeFetches(KindOrder[2])

\* the goroutines of Exporter.Collect that have not returned yet
InFlight == DOMAIN inflight

\* the local state of one Exporter.Collect after its query
Request(at, active, samples, logged) ==
  [pc |-> at, activeServices |-> active,
   task |-> AllIdle(Len(collectors)),
   seen |-> [i \in 1 .. Len(collectors) |-> redisStatsZero],
   answer |-> NoFetch(Len(collectors)),
   ch |-> SetToBag(samples), errs |-> logged]

\* a request arrives and its ListUnitsByNamesContext fails (main.go:298-302):
\* Collect returns at once
HandlerQueryError(r) ==
  /\ phase = "serving" /\ r \notin InFlight
  /\ inflight' =
       [q \in InFlight \cup {r} |->
          IF q = r THEN Request("wait", {}, {}, {"systemd"}) ELSE inflight[q]]
  /\ UNCHANGED <<expVars, utilVars, outVars, colVars, unitVars, serialVars, globVars>>

\* a request arrives and its Exporter.Collect runs up to the launch loop
\* (main.go:298-313)
HandlerQuery(r, reply) ==
  /\ phase = "serving" /\ r \notin InFlight
  /\ Len(reply) <= Len(services)
  /\ serviceGauge' = ServiceGaugeAfter(serviceGauge, reply)
  /\ inflight' =
       [q \in InFlight \cup {r} |->
          IF q = r
          THEN Request("launch", ActiveBits(reply),
                       ServiceSamples(ServiceGaugeAfter(serviceGauge, reply)),
                       {})
          ELSE inflight[q]]
  /\ UNCHANGED <<phase, services, collectors, pc, activeServices, task, fetch,
                 units, outVars, colVars, unitVars,
                 utilVars, serialVars, globVars>>

\* the launch loop of request r (main.go:317-326)
HandlerLaunch(r) ==
  /\ r \in InFlight /\ inflight[r].pc = "launch"
  /\ inflight' =
       [inflight EXCEPT
          ![r].task = [i \in 1 .. Len(collectors) |->
                         IF Launches(collectors[i].services,
                                     inflight[r].activeServices)
                         THEN "running" ELSE "idle"],
          ![r].pc = "wait"]
  /\ UNCHANGED <<expVars, utilVars, outVars, colVars, unitVars, serialVars, globVars>>

\* Redis.updateStats in the goroutine of request r, up to and including the
\* read of e.stats (redis.go:83-117); f is the answer of the backend
HandlerTaskRead(r, i, f) ==
  /\ r \in InFlight /\ inflight[r].task[i] = "running"
  /\ inflight' =
       [inflight EXCEPT
          ![r].task[i] = "updating",
          ![r].seen[i] = redisStats,
          ![r].answer[i] = f]
  /\ UNCHANGED <<expVars, utilVars, outVars, colVars, unitVars, serialVars, globVars>>

\* the rest of Redis.updateStats and of Redis.Collect in the goroutine of
\* request r: the write of e.stats, the metrics sent on the request's ch,
\* wg.Done (redis.go:58-73, 118-119)
HandlerTaskWrite(r, i) ==
  /\ r \in InFlight /\ inflight[r].task[i] = "updating"
  /\ LET u == RedisUpdateStats(inflight[r].seen[i], inflight[r].answer[i])
         stored == IF u.err THEN redisStats ELSE u.stats
         out == RedisCollect(u)
     IN /\ redisStats' = stored
        /\ inflight' =
             [inflight EXCEPT
                ![r].task[i] = "done",
                ![r].ch = @ (+) SetToBag(out.samples),
                ![r].errs = IF out.logged
                            THEN @ \cup {collectors[i].Collector} ELSE @]
  /\ UNCHANGED <<expVars, utilVars, outVars, nginxStats, memcacheStats, memcacheMem,
                 unitVars, serialVars, globVars>>

\* wg.Wait of request r returns and its Exporter.Collect with it
\* (main.go:327-328)
HandlerReturn(r) ==
  /\ r \in InFlight /\ inflight[r].pc = "wait"
  /\ \A i \in 1 .. Len(collectors) :
       inflight[r].task[i] \notin {"running", "updating"}
  /\ inflight' = [q \in InFlight \ {r} |-> inflight[q]]
  /\ UNCHANGED <<expVars, utilVars, outVars, colVars, unitVars, serialVars, globVars>>

OverlapNext ==
  \/ \E kind \in OverlapKinds, names \in NameLists, f \in OverlapFetches :
       Register(kind, names, f)
  \/ Serve
  \/ \E r \in Requests :
       \/ HandlerQueryError(r)
       \/ \E reply \in FullReplies : HandlerQuery(r, reply)
       \/ HandlerLaunch(r)
       \/ \E i \in 1 .. Len(collectors) :
            \/ \E f \in OverlapFetches : HandlerTaskRead(r, i, f)
            \/ HandlerTaskWrite(r, i)
       \/ HandlerReturn(r)

OverlapSpec == Init /\ [][OverlapNext]_vars

(***************************************************************************)
(* util.go: ParseURI, BasicAuth and ListenAndServe, each called on its     *)
(* own.  A Go string is modelled as the sequence of its pieces; the pieces *)
(* in UriPieces are the substrings ParseURI can tell apart.                *)
(***************************************************************************)
\* largest number of pieces of a URI handed to ParseURI
MaxPieces == 6
UriPieces == {"unix", "tcp", ":", "/", "a"}
URIs == UNION {[1 .. n -> UriPieces] : n \in 0 .. MaxPieces}

\* strings.HasPrefix
HasPrefix(s, prefix) ==
  Len(s) >= Len(prefix) /\ SubSeq(s, 1, Len(prefix)) = prefix
\* s[n:]
Drop(s, n) == SubSeq(s, n + 1, Len(s))
\* path.IsAbs
IsAbs(p) == Len(p) > 0 /\ p[1] = "/"

\* mutant of ParseURI: the "//" after "unix:" is not removed
ParseURIKeepsSlashes(uri) ==
  IF HasPrefix(uri, <<"unix", ":">>)
  THEN LET p == Drop(uri, 2)
       IN IF ~IsAbs(p)
          THEN [scheme |-> "", host |-> <<>>, err |-> TRUE]
          ELSE [scheme |-> "unix", host |-> p, err |-> FALSE]
  ELSE IF HasPrefix(uri, <<"tcp", ":", "/", "/">>)
       THEN [scheme |-> "tcp", host |-> Drop(uri, 4), err |-> FALSE]
       ELSE [scheme |-> "tcp", host |-> uri, err |-> FALSE]

\* ParseURI (util.go:19-35): the returned scheme, host and whether the error
\* is non-nil
ParseURI(uri) ==
  IF HasPrefix(uri, <<"unix", ":">>)
  THEN LET rest == Drop(uri, 2)
           p == IF HasPrefix(rest, <<"/", "/">>) THEN Drop(rest, 2) ELSE rest
       IN IF ~IsAbs(p)
          THEN [scheme |-> "", host |-> <<>>, err |-> TRUE]
          ELSE [scheme |-> "unix", host |-> p, err |-> FALSE]
  ELSE IF HasPrefix(uri, <<"tcp", ":", "/", "/">>)
       THEN [scheme |-> "tcp", host |-> Drop(uri, 4), err |-> FALSE]
       ELSE [scheme |-> "tcp", host |-> uri, err |-> FALSE]

\* a function of util.go is called once, on its own
Uncalled == phase = "setup" /\ call = NoCall /\ lpc = "idle"

\* ParseURI(uri)
CallParseURI(uri) ==
  /\ Uncalled
  /\ call' = [fn |-> "ParseURI", uri |-> uri, ret |-> ParseURI(uri)]
  /\ UNCHANGED <<expVars, outVars, colVars, unitVars, reqVars, files, lpc, serialVars,
                 globVars>>

\* the users main configures from web.basic-auth (main.go:183-193) and the
\* credentials a request may carry
UserNames == {"alice", "bob"}
Passwords == {"pw1", "pw2"}
UserMaps ==
  UNION {[names -> Passwords] : names \in (SUBSET UserNames) \ {{}}}
NoCredentials == [ok |-> FALSE, username |-> "", password |-> ""]
Credentials(username, password) ==
  [ok |-> TRUE, username |-> username, password |-> password]
\* what r.BasicAuth() returns for the requests sent
AuthRequests ==
  {NoCredentials} \cup
  {Credentials(u, p) : u \in UserNames \cup {"", "eve"},
                       p \in Passwords \cup {"", "alice"}}

\* sha256.Sum256: no two of the strings used share a digest
Sum256(s) == <<"sha256", s>>
\* subtle.ConstantTimeCompare on two digests
ConstantTimeCompare(x, y) == IF x = y THEN 1 ELSE 0

\* what the handler does with a request: whether next.ServeHTTP is called,
\* and otherwise the status and the headers it sets itself
Passed == [next |-> TRUE, status |-> 0, header |-> {}]
Unauthorized == [next |-> FALSE, status |-> 401, header |-> {"WWW-Authenticate"}]

\* mutant of BasicAuthHandler: the password may be that of any user
BasicAuthHandlerAnyPassword(users, req) ==
  IF /\ req.ok
     /\ \E authUsername \in DOMAIN users, other \in DOMAIN users :
          /\ ConstantTimeCompare(Sum256(req.username),
                                 Sum256(authUsername)) = 1
          /\ ConstantTimeCompare(Sum256(req.password),
                                 Sum256(users[other])) = 1
  THEN Passed
  ELSE Unauthorized

\* the handler BasicAuth returns (util.go:117-138), for the configured users
\* and the credentials req of a request
BasicAuthHandler(users, req) ==
  IF /\ req.ok
     /\ \E authUsername \in DOMAIN users :
          /\ ConstantTimeCompare(Sum256(req.username),
                                 Sum256(authUsername)) = 1
          /\ ConstantTimeCompare(Sum256(req.password),
                                 Sum256(users[authUsername])) = 1
  THEN Passed
  ELSE Unauthorized

\* a request reaches the handler BasicAuth(next, users)
CallBasicAuth(users, req) ==
  /\ Uncalled
  /\ call' = [fn |-> "BasicAuth", users |-> users, req |-> req,
              ret |-> BasicAuthHandler(users, req)]
  /\ UNCHANGED <<expVars, outVars, colVars, unitVars, reqVars, files, lpc, serialVars,
                 globVars>>

\* the listen addresses given as web.listen-address, the files that may lie
\* at the socket path when the exporter starts, and the modes net.Listen
\* may leave on the socket it creates (they depend on the umask)
ListenURIs ==
  {<<"unix", ":", "/", "/", "/", "a">>, <<"unix", ":", "/", "a">>,
   <<"unix", ":", "a">>, <<"tcp", ":", "/", "/", "a">>, <<"a">>}
SocketPath == <<"/", "a">>
FileAt(path, kind, mode) ==
  [p \in {path} |-> [kind |-> kind, mode |-> mode]]
FileSystems ==
  {<<>>, FileAt(SocketPath, "file", "0644"),
   FileAt(SocketPath, "socket", "0755")}
UmaskModes == {"0755", "0777", "0770"}

\* the record of a ListenAndServe call: its argument, what ParseURI made of
\* it and whether an error was returned
Listening(uri, err) ==
  [fn |-> "ListenAndServe", uri |-> uri, ret |-> ParseURI(uri), err |-> err]

\* ListenAndServe up to the branch on the scheme (util.go:83-90)
ListenParse(uri) ==
  /\ Uncalled
  /\ LET r == ParseURI(uri)
     IN /\ call' = Listening(uri, r.err)
        /\ lpc' = IF r.err THEN "returned"
                  ELSE IF r.scheme = "unix" THEN "stat" ELSE "tcp"
  /\ UNCHANGED <<expVars, outVars, colVars, unitVars, reqVars, files, serialVars,
                 globVars>>

\* os.Stat(host) (util.go:91): a file at the path is removed first
ListenStat ==
  /\ lpc = "stat"
  /\ lpc' = IF call.ret.host \in DOMAIN files THEN "remove" ELSE "listen"
  /\ UNCHANGED <<expVars, outVars, colVars, unitVars, reqVars, call, files, serialVars,
                 globVars>>

\* os.Remove(host) succeeds or fails (util.go:92-96)
ListenRemove(ok) ==
  /\ lpc = "remove"
  /\ IF ok
     THEN /\ files' = [p \in DOMAIN files \ {call.ret.host} |-> files[p]]
          /\ lpc' = "listen"
          /\ UNCHANGED call
     ELSE /\ call' = [call EXCEPT !.err = TRUE]
          /\ lpc' = "returned"
          /\ UNCHANGED files
  /\ UNCHANGED <<expVars, outVars, colVars, unitVars, reqVars, serialVars, globVars>>

\* net.Listen("unix", host) binds a new socket, created with mode, or fails
\* (util.go:98-101)
ListenBind(ok, mode) ==
  /\ lpc = "listen"
  /\ IF ok
     THEN /\ files' = [p \in DOMAIN files \cup {call.ret.host} |->
                         IF p = call.ret.host
                         THEN [kind |-> "socket", mode |-> mode]
                         ELSE files[p]]
          /\ lpc' = "chmod"
          /\ UNCHANGED call
     ELSE /\ call' = [call EXCEPT !.err = TRUE]
          /\ lpc' = "returned"
          /\ UNCHANGED files
  /\ UNCHANGED <<expVars, outVars, colVars, unitVars, reqVars, serialVars, globVars>>

\* os.Chmod(host, 0770) succeeds or fails; its result is dropped and the err
\* tested is that of net.Listen, which is nil here (util.go:102-107)
ListenChmod(ok) ==
  /\ lpc = "chmod"
  /\ files' = IF ok
              THEN [files EXCEPT ![call.ret.host].mode = "0770"]
              ELSE files
  /\ lpc' = "serving"
  /\ UNCHANGED <<expVars, outVars, colVars, unitVars, reqVars, call, serialVars,
                 globVars>>

\* http.ListenAndServe / http.ListenAndServeTLS on a TCP address binds and
\* serves, or returns an error (util.go:109-114)
ListenTCP(ok) ==
  /\ lpc = "tcp"
  /\ lpc' = IF ok THEN "serving" ELSE "returned"
  /\ call' = [call EXCEPT !.err = ~ok]
  /\ UNCHANGED <<expVars, outVars, colVars, unitVars, reqVars, files, serialVars,
                 globVars>>

UtilInit ==
  /\ phase = "setup"
  /\ services = <<>> /\ collectors = <<>> /\ pc = "idle"
  /\ activeServices = {} /\ task = <<>> /\ fetch = <<>>
  /\ units = <<>> /\ serviceGauge = <<>>
  /\ sink = EmptyBag /\ errs = {}
  /\ subject = "none"
  /\ cpc = "idle" /\ failed = {} /\ last = NoUpdate
  /\ children = childrenZero
  /\ inflight = <<>>
  /\ call = NoCall /\ files \in FileSystems /\ lpc = "idle"
  /\ tally = NoTally
  /\ uris = uriGlobsZero
  /\ redisStats = redisStatsZero
  /\ nginxStats = nginxStatsZero
  /\ memcacheStats = <<>> /\ memcacheMem = <<>>
  /\ cpuStat = cpuStatZero /\ netStats = <<>> /\ diskioStats = <<>>
  /\ opcacheStats = opcacheStatsZero

UtilNext ==
  \/ Uncalled /\ \E uri \in URIs : CallParseURI(uri)
  \/ Uncalled /\ \E users \in UserMaps, req \in AuthRequests :
                    CallBasicAuth(users, req)
  \/ Uncalled /\ \E uri \in ListenURIs : ListenParse(uri)
  \/ ListenStat
  \/ \E ok \in BOOLEAN :
       \/ ListenRemove(ok)
       \/ \E mode \in UmaskModes : ListenBind(ok, mode)
       \/ ListenChmod(ok)
       \/ ListenTCP(ok)

UtilSpec == UtilInit /\ [][UtilNext]_vars

(***************************************************************************)
(* Redis.updateStats run again and again, one run at a time, against a     *)
(* backend whose counters never decrease and whose INFO command sometimes  *)
(* fails: once from NewRedis (redis.go:46), then once per Collect.  tally  *)
(* keeps the reading NewRedis stored, the sum of the deltas the runs       *)
(* returned and whether Collect has run never, once or more often.         *)
(***************************************************************************)
SerialFetches ==
  {FetchErr} \cup
  {FetchOK([used_memory |-> Num(v), maxmemory |-> Num(v),
            keyspace_hits |-> Num(hits), keyspace_misses |-> Num(misses)])
     : v \in ScrapeValues, hits \in Uint, misses \in EdgeSamples}

\* the backend counters of answer f are not below the last reading taken
NotDecreased(f) ==
  IF f.err THEN TRUE
  ELSE /\ redisGetUint64(f.reply.keyspace_hits) >= redisStats.KeyHits
       /\ redisGetUint64(f.reply.keyspace_misses) >= redisStats.KeyMisses

SerialInit ==
  /\ phase = "serial"
  /\ services = <<>> /\ collectors = <<>> /\ pc = "idle"
  /\ activeServices = {} /\ task = <<>> /\ fetch = <<>>
  /\ units = <<>> /\ serviceGauge = <<>>
  /\ sink = EmptyBag /\ errs = {}
  /\ subject = "redis"
  /\ cpc = "idle" /\ failed = {} /\ last = NoUpdate
  /\ children = childrenZero
  /\ inflight = <<>>
  /\ call = NoCall /\ files = <<>> /\ lpc = "idle"
  /\ tally = NoTally
  /\ uris = uriGlobsZero
  /\ redisStats = redisStatsZero
  /\ nginxStats = nginxStatsZero
  /\ memcacheStats = <<>> /\ memcacheMem = <<>>
  /\ cpuStat = cpuStatZero /\ netStats = <<>> /\ diskioStats = <<>>
  /\ opcacheStats = opcacheStatsZero

\* NewRedis: the first run of updateStats, whose result is dropped
SerialNewRedis(f) ==
  /\ phase = "serial" /\ tally = NoTally
  /\ LET u == RedisUpdateStats(redisStats, f)
     IN /\ redisStats' = u.stats
        /\ tally' = [runs |-> "some", baseline |-> u.stats,
                     KeyHits |-> 0, KeyMisses |-> 0, collects |-> "none",
                     failed |-> u.err, covered |-> FALSE]
  /\ UNCHANGED <<expVars, outVars, nginxStats, memcacheStats, memcacheMem,
                 unitVars, reqVars, utilVars, globVars>>

\* mutant of SerialCollect: a failed fetch clears the stored reading
SerialCollectForgets(f) ==
  /\ phase = "serial" /\ tally # NoTally
  /\ NotDecreased(f)
  /\ LET u == RedisUpdateStats(redisStats, f)
     IN /\ redisStats' = IF u.err THEN redisStatsZero ELSE u.stats
        /\ tally' = [tally EXCEPT
                       !.KeyHits = IF u.err THEN @ ELSE @ + u.ret.KeyHits,
                       !.KeyMisses = IF u.err THEN @ ELSE @ + u.ret.KeyMisses,
                       !.collects = IF @ = "none" THEN "one" ELSE "more",
                       !.failed = u.err,
                       !.covered = @ \/ (tally.failed /\ ~u.err)]
  /\ UNCHANGED <<expVars, outVars, nginxStats, memcacheStats, memcacheMem,
                 unitVars, reqVars, utilVars, globVars>>

\* Redis.Collect: one more run of updateStats; the deltas it returns are
\* added to redis_key_total when it succeeded
SerialCollect(f) ==
  /\ phase = "serial" /\ tally # NoTally
  /\ NotDecreased(f)
  /\ LET u == RedisUpdateStats(redisStats, f)
     IN /\ redisStats' = u.stats
        /\ tally' = [tally EXCEPT
                       !.KeyHits = IF u.err THEN @ ELSE @ + u.ret.KeyHits,
                       !.KeyMisses = IF u.err THEN @ ELSE @ + u.ret.KeyMisses,
                       !.collects = IF @ = "none" THEN "one" ELSE "more",
                       !.failed = u.err,
                       !.covered = @ \/ (tally.failed /\ ~u.err)]
  /\ UNCHANGED <<expVars, outVars, nginxStats, memcacheStats, memcacheMem,
                 unitVars, reqVars, utilVars, globVars>>

SerialNext ==
  \E f \in SerialFetches : SerialNewRedis(f) \/ SerialCollect(f)

SerialSpec == SerialInit /\ [][SerialNext]_vars

(***************************************************************************)
(* The exporter under fair scheduling: every goroutine that can take a     *)
(* step takes it eventually, and every backend call of a started collector *)
(* ends: it answers, fails, or fails when the connect timeout of the       *)
(* backend that cannot be reached fires.                                   *)
(***************************************************************************)
\* how a backend call of a collector of this kind ends
LiveFetches(kind) == GateFetches(kind) \cup {Unreachable}

\* the Collect of collector i comes back from its backend call
FetchReturns(i) ==
  /\ i \in DOMAIN task
  /\ \E f \in LiveFetches(collectors[i].Collector) : TaskCollect(i, f)

LiveNext ==
  \/ \E kind \in Kinds, names \in NameLists :
       \E f \in GateFetches(kind) : Register(kind, names, f)
  \/ Serve
  \/ CollectQueryError
  \/ \E reply \in FullReplies : CollectQuery(reply)
  \/ CollectLaunch
  \/ \E i \in 1 .. Len(collectors) : FetchReturns(i)
  \/ CollectReturn

LiveSpec ==
  /\ Init /\ [][LiveNext]_vars
  /\ WF_vars(CollectLaunch)
  /\ \A i \in 1 .. Len(KindOrder) : WF_vars(FetchReturns(i))
  /\ WF_vars(CollectReturn)

(***************************************************************************)
(* URIGlobs.Get (util.go:73-81), called by Memcache.updateStats on every   *)
(* scrape, while sockets appear in and disappear from the directories of   *)
(* the glob patterns.  A Go slice is its elements together with the rest   *)
(* of its backing array: append writes into that rest when the new         *)
(* elements fit and allocates a new array when they do not.                *)
(***************************************************************************)
\* the sockets there can be, in the order filepath.Glob lists them
GlobDirs == <<"d1", "d2">>
SocketNames == <<"s1", "s2">>
SocketAt(dir, name) == <<"/", dir, "/", name>>
Sockets ==
  [n \in 1 .. Len(GlobDirs) * Len(SocketNames) |->
     SocketAt(GlobDirs[((n - 1) \div Len(SocketNames)) + 1],
              SocketNames[((n - 1) % Len(SocketNames)) + 1])]
GlobOf(dir) == <<"/", dir, "/", "*">>

\* path.Match: a "*" stands for one path element
Match(pattern, name) ==
  /\ Len(pattern) = Len(name)
  /\ \A k \in 1 .. Len(pattern) : pattern[k] = "*" \/ pattern[k] = name[k]

\* filepath.Glob on the file system fs: the names that match, sorted
Glob(fs, pattern) ==
  SelectSeq(Sockets, LAMBDA name : name \in DOMAIN fs /\ Match(pattern, name))

\* the capacity of a slice that ParseURIGlobs built by appending n elements
\* one by one
AppendedCap(n) == IF n <= 2 THEN n ELSE IF n <= 4 THEN 4 ELSE 8

\* the URIGlobs that ParseURIGlobs returns; the rest of the backing array of
\* literals holds empty strings
LiteralTargets == <<<<"tcp1">>, <<"tcp2">>, <<"tcp3">>>>
EmptyStrings(n) == [k \in 1 .. n |-> <<>>]
ParsedURIGlobs ==
  {[literals |-> SubSeq(LiteralTargets, 1, n),
    spare |-> EmptyStrings(AppendedCap(n) - n),
    globs |-> globs]
     : n \in 0 .. Len(LiteralTargets),
       globs \in {<<>>, <<GlobOf(GlobDirs[1])>>, <<GlobOf(GlobDirs[2])>>,
                  <<GlobOf(GlobDirs[1]), GlobOf(GlobDirs[2])>>}}

\* mutant of LiteralsSlice: the slice spans what earlier calls have left in
\* the backing array
LiteralsSliceWithSpare(z) ==
  LET left == SelectSeq(z.spare, LAMBDA uri : uri # <<>>)
  IN [vals |-> z.literals \o left,
      spare |-> SubSeq(z.spare, Len(left) + 1, Len(z.spare)),
      shared |-> TRUE, array |-> z.spare]

\* uris := z.literals: the slice shares the backing array of z.literals;
\* array is the rest of that array behind the literals
LiteralsSlice(z) ==
  [vals |-> z.literals, spare |-> z.spare, shared |-> TRUE, array |-> z.spare]

\* uris = append(uris, matches...)
AppendMatches(sl, matches) ==
  IF Len(matches) <= Len(sl.spare)
  THEN LET spare == SubSeq(sl.spare, Len(matches) + 1, Len(sl.spare))
           array == SubSeq(sl.array, 1, Len(sl.array) - Len(sl.spare))
                    \o matches \o spare
       IN [vals |-> sl.vals \o matches, spare |-> spare,
           shared |-> sl.shared,
           array |-> IF sl.shared THEN array ELSE sl.array]
  ELSE [vals |-> sl.vals \o matches, spare |-> <<>>, shared |-> FALSE,
        array |-> sl.array]

\* the loop of Get over z.globs from the k-th pattern on
RECURSIVE GetLoop(_, _, _, _)
GetLoop(sl, globs, k, fs) ==
  IF k > Len(globs) THEN sl
  ELSE GetLoop(AppendMatches(sl, Glob(fs, globs[k])), globs, k + 1, fs)

\* URIGlobs.Get: the slice returned and the backing array it leaves
URIGlobsGet(z, fs) == GetLoop(LiteralsSlice(z), z.globs, 1, fs)

GlobInit ==
  /\ phase = "globs"
  /\ services = <<>> /\ collectors = <<>> /\ pc = "idle"
  /\ activeServices = {} /\ task = <<>> /\ fetch = <<>>
  /\ units = <<>> /\ serviceGauge = <<>>
  /\ sink = EmptyBag /\ errs = {}
  /\ subject = "memcache"
  /\ cpc = "idle" /\ failed = {} /\ last = NoUpdate
  /\ children = childrenZero
  /\ inflight = <<>>
  /\ call = NoCall /\ files = <<>> /\ lpc = "idle"
  /\ tally = NoTally
  /\ uris \in ParsedURIGlobs
  /\ redisStats = redisStatsZero
  /\ nginxStats = nginxStatsZero
  /\ memcacheStats = <<>> /\ memcacheMem = <<>>
  /\ cpuStat = cpuStatZero /\ netStats = <<>> /\ diskioStats = <<>>
  /\ opcacheStats = opcacheStatsZero

\* a memcache server starts and creates its socket
SocketAppears(name) ==
  /\ phase = "globs" /\ name \notin DOMAIN files
  /\ files' = files @@ FileAt(name, "socket", "0755")
  /\ UNCHANGED <<expVars, outVars, colVars, unitVars, reqVars, call, lpc,
                 serialVars, globVars>>

\* a memcache server stops and its socket is removed
SocketDisappears(name) ==
  /\ phase = "globs" /\ name \in DOMAIN files
  /\ files' = [p \in DOMAIN files \ {name} |-> files[p]]
  /\ UNCHANGED <<expVars, outVars, colVars, unitVars, reqVars, call, lpc,
                 serialVars, globVars>>

\* Memcache.updateStats calls e.uris.Get() (part_001:80)
CallGet ==
  /\ phase = "globs"
  /\ LET got == URIGlobsGet(uris, files)
     IN /\ call' = [fn |-> "Get", files |-> files, ret |-> got.vals]
        /\ uris' = [uris EXCEPT !.spare = got.array]
  /\ UNCHANGED <<expVars, outVars, colVars, unitVars, reqVars, files, lpc,
                 serialVars>>

GlobNext ==
  \/ \E n \in DOMAIN Sockets : SocketAppears(Sockets[n])
  \/ \E n \in DOMAIN Sockets : SocketDisappears(Sockets[n])
  \/ CallGet

GlobSpec == GlobInit /\ [][GlobNext]_vars

(***************************************************************************)
(* Properties of Exporter.Collect                                          *)
(***************************************************************************)
Kind(i) == collectors[i].Collector
Launched(i) == task[i] # "idle"
\* the stored last reading of a collector
StoredReading(kind) ==
  CASE kind = "redis" -> redisStats
    [] kind = "nginx" -> nginxStats
    [] OTHER -> memcacheStats

\* C1: once the loop of a scrape has run, a collector has been started if and
\* only if every service of its required bitmask is in the active bitmask
\* (required & active == required).
C1_LaunchedIffRequiredActive ==
  pc = "wait" =>
    \A i \in 1 .. Len(collectors) :
      Launched(i) <=> (collectors[i].services \cap activeServices
                         = collectors[i].services)

\* C2: once the loop of a scrape has run, every collector registered with no
\* required service has been started, whatever services are active.
C2_NoRequirementAlwaysLaunched ==
  pc = "wait" =>
    \A i \in 1 .. Len(collectors) :
      collectors[i].services = {} => Launched(i)

\* the scenario of C3: registry [redis, nginx], collector i requires {redis}
RedisGated(i) ==
  /\ services = <<"redis", "nginx">>
  /\ i \in 1 .. Len(collectors)
  /\ collectors[i].services = {0}

\* C3: with registry [redis, nginx] and a collector that requires {redis}: in
\* a scrape with active mask 0b00 the collector is not started and no step of
\* that scrape changes its stored last reading; in a scrape with active mask
\* 0b01 it is started.
C3_InactiveServiceSkipsCollector ==
  [][\A i \in 1 .. Len(collectors) :
       RedisGated(i) =>
         /\ (pc' = "wait" /\ activeServices' = {}) => task'[i] = "idle"
         /\ (pc = "wait" /\ activeServices = {})
              => StoredReading(Kind(i))' = StoredReading(Kind(i))
         /\ (pc' = "wait" /\ activeServices' = {0}) => task'[i] # "idle"]_vars

\* C4: a scrape whose service-status query fails starts no collector, leaves
\* the sink empty and changes no collector's stored last reading.
C4_QueryErrorRunsNothing ==
  [][("systemd" \in errs') =>
       /\ \A i \in 1 .. Len(collectors) : task'[i] = "idle"
       /\ sink' = EmptyBag
       /\ UNCHANGED colVars]_vars

\* a scrape failed on the service-status query with collectors registered, one
\* of them without required services
C4_Witness ==
  /\ phase = "serving" /\ pc = "idle" /\ "systemd" \in errs
  /\ Len(collectors) >= 2
  /\ \E i \in 1 .. Len(collectors) : collectors[i].services = {}
  /\ redisStats # redisStatsZero

\* the metrics (name, label) a collector sends when its collection succeeds
MetricsOf(kind) ==
  CASE kind = "redis" ->
         {<<"redis_mem_bytes", <<"used">>>>, <<"redis_mem_bytes", <<"total">>>>,
          <<"redis_key_total", <<"hits">>>>, <<"redis_key_total", <<"misses">>>>}
    [] kind = "nginx" -> {<<"nginx_requests_total", <<>>>>}
    [] OTHER ->
         UNION {{<<"memcache_mem_bytes", <<"used", server>>>>,
                 <<"memcache_mem_bytes", <<"total", server>>>>,
                 <<"memcache_key_total", <<"hits", server>>>>,
                 <<"memcache_key_total", <<"misses", server>>>>}
                : server \in DOMAIN memcacheMem}

\* how often the sink holds a metric of that source, name and label
InSink(src, m) ==
  LET hit == {x \in BagToSet(sink) :
                x.src = src /\ x.name = m[1] /\ x.label = m[2]}
  IN IF hit = {} THEN 0
     ELSE LET x == CHOOSE x \in hit : TRUE
          IN IF Cardinality(hit) = 1 THEN CopiesIn(x, sink) ELSE 2

ScrapeReturned == phase = "serving" /\ pc = "idle" /\ "systemd" \notin errs

\* C5: when three collectors were started in a scrape, the scrape can return
\* once all three have finished; after it each collector whose fetch succeeded
\* has all its metrics in the sink, and the errors logged are exactly those of
\* the collectors whose fetch failed.
C5_FailureIsIsolated ==
  /\ (pc = "wait" /\ \A i \in 1 .. Len(collectors) : task[i] # "running")
       => ENABLED CollectReturn
  /\ (ScrapeReturned /\ Len(collectors) = 3
        /\ \A i \in 1 .. 3 : Launched(i))
       => /\ \A i \in 1 .. 3 : fetch[i] \in {"ok", "err"}
          /\ errs = {Kind(i) : i \in {j \in 1 .. 3 : fetch[j] = "err"}}
          /\ \A i \in 1 .. 3 :
               fetch[i] = "ok" =>
                 \A m \in MetricsOf(Kind(i)) : InSink(Kind(i), m) = 1

\* three collectors were started, exactly one fetch failed, the scrape returned
C5_Witness ==
  /\ ScrapeReturned /\ Len(collectors) = 3
  /\ \A i \in 1 .. 3 : task[i] = "done"
  /\ \E x \in 1 .. 3 :
       /\ fetch[x] = "err"
       /\ \A y \in (1 .. 3) \ {x} : fetch[y] = "ok"
  /\ DOMAIN memcacheMem # {}

\* C6: when Exporter.Collect has returned, no goroutine it started is still
\* running, and nothing is written to the sink until the next scrape starts.
C6_ReturnsAfterAllTasks ==
  [][/\ pc' = "idle" => \A i \in 1 .. Len(collectors) : task'[i] # "running"
     /\ (pc = "idle" /\ pc' = "idle" /\ "systemd" \notin errs')
          => sink' = sink]_vars

\* a scrape that started at least two collectors has returned
C6_Witness ==
  /\ ScrapeReturned
  /\ Cardinality({i \in 1 .. Len(collectors) : task[i] = "done"}) >= 2

\* the metric families one section of a collector's Collect sends
Families(kind, section) ==
  CASE kind = "redis" -> {"redis_mem_bytes", "redis_key_total"}
    [] kind = "nginx" -> {"nginx_requests_total"}
    [] kind = "memcache" -> {"memcache_mem_bytes", "memcache_key_total"}
    [] kind = "node" /\ section = "cpu" -> {"node_cpu_seconds_total"}
    [] kind = "node" /\ section = "mem" -> {"node_mem_bytes", "node_swap_bytes"}
    [] kind = "node" /\ section = "net" -> {"node_net_bytes_total"}
    [] kind = "node" /\ section = "disk" -> {"node_disk_kilobytes"}
    [] kind = "node" /\ section = "diskio" -> {"node_diskio_seconds_total"}
    [] kind = "phpfpm" /\ section = "proc" -> {"phpfpm_proc_count"}
    [] kind = "phpfpm" /\ section = "opcache" ->
         {"phpfpm_opcache_mem_bytes", "phpfpm_opcache_strings_mem_bytes",
          "phpfpm_opcache_key_total"}
    [] OTHER -> {}

IsNum(val) == val.text = "num"

\* the sum of the six hit (or miss) counters of one memcache server
SixSum(vals) ==
  vals[1].n + vals[2].n + vals[3].n + vals[4].n + vals[5].n + vals[6].n

\* the previous reading a, the current reading b, the returned value and
\* the stored reading of one counter, when b has not fallen below a
DeltaIs(a, b, ret, stored) == a <= b => (ret = b - a /\ stored = b)

\* C8: when the stored last reading of a counter (redis keyspace hits and
\* misses, memcache hit and miss sums of a server, opcache hits and misses)
\* is a and the next successful reading is b with a <= b, the update
\* returns b - a for that counter and stores b.
C8_DeltaOfIncreasingReadings ==
  /\ (last.fn = "redis" /\ ~last.f.err) =>
       /\ IsNum(last.f.reply.keyspace_hits) =>
            DeltaIs(last.prev.KeyHits, last.f.reply.keyspace_hits.n,
                    last.ret.KeyHits, redisStats.KeyHits)
       /\ IsNum(last.f.reply.keyspace_misses) =>
            DeltaIs(last.prev.KeyMisses, last.f.reply.keyspace_misses.n,
                    last.ret.KeyMisses, redisStats.KeyMisses)
  /\ (last.fn = "opcache" /\ ~last.f.err) =>
       /\ IsNum(last.f.reply.hits) =>
            DeltaIs(last.prev.KeyHits, last.f.reply.hits.n,
                    last.ret.KeyHits, opcacheStats.KeyHits)
       /\ IsNum(last.f.reply.misses) =>
            DeltaIs(last.prev.KeyMisses, last.f.reply.misses.n,
                    last.ret.KeyMisses, opcacheStats.KeyMisses)
  /\ (last.fn = "memcache" /\ ~last.f.err) =>
       \A server \in DOMAIN last.f.reply \cap DOMAIN last.prev :
         /\ server \in DOMAIN last.ret /\ server \in DOMAIN memcacheStats
         /\ DeltaIs(last.prev[server].KeyHits,
                    SixSum(last.f.reply[server].hits) % Modulus,
                    last.ret[server].KeyHits, memcacheStats[server].KeyHits)
         /\ DeltaIs(last.prev[server].KeyMisses,
                    SixSum(last.f.reply[server].misses) % Modulus,
                    last.ret[server].KeyMisses, memcacheStats[server].KeyMisses)

\* C8 witness: redis keyspace_hits read 1 and then MaxUint - 1: the update
\* returned MaxUint - 2 and stored MaxUint - 1.
C8_Witness ==
  /\ last.fn = "redis" /\ ~last.err
  /\ last.prev.KeyHits = 1
  /\ last.f.reply.keyspace_hits = Num(MaxUint - 1)
  /\ last.ret.KeyHits = MaxUint - 2
  /\ redisStats.KeyHits = MaxUint - 1

\* the returned value of a counter whose reading fell from a to b
WrapIs(a, b, ret) == b < a => (ret = (MaxUint - a) + b + 1 /\ ret >= 0)

\* C9: when the reading b of an unsigned counter is below the stored
\* reading a, the update returns (MAX - a) + b + 1, which is not negative:
\* redis and opcache hits and misses, the memcache sums, every field of a
\* network interface and of a disk device present in both readings.
C9_WrappedDelta ==
  /\ (last.fn = "redis" /\ ~last.f.err) =>
       /\ IsNum(last.f.reply.keyspace_hits) =>
            WrapIs(last.prev.KeyHits, last.f.reply.keyspace_hits.n,
                   last.ret.KeyHits)
       /\ IsNum(last.f.reply.keyspace_misses) =>
            WrapIs(last.prev.KeyMisses, last.f.reply.keyspace_misses.n,
                   last.ret.KeyMisses)
  /\ (last.fn = "opcache" /\ ~last.f.err) =>
       /\ IsNum(last.f.reply.hits) =>
            WrapIs(last.prev.KeyHits, last.f.reply.hits.n, last.ret.KeyHits)
       /\ IsNum(last.f.reply.misses) =>
            WrapIs(last.prev.KeyMisses, last.f.reply.misses.n,
                   last.ret.KeyMisses)
  /\ (last.fn = "memcache" /\ ~last.f.err) =>
       \A server \in DOMAIN last.f.reply \cap DOMAIN last.prev :
         /\ WrapIs(last.prev[server].KeyHits,
                   SixSum(last.f.reply[server].hits) % Modulus,
                   last.ret[server].KeyHits)
         /\ WrapIs(last.prev[server].KeyMisses,
                   SixSum(last.f.reply[server].misses) % Modulus,
                   last.ret[server].KeyMisses)
  /\ (last.fn = "net" /\ ~last.f.err) =>
       \A netif \in DOMAIN last.f.reply \cap DOMAIN last.prev :
         \A k \in NetDevFields :
           WrapIs(last.prev[netif][k], last.f.reply[netif][k],
                  last.ret[netif][k])
  /\ (last.fn = "diskio" /\ ~last.f.err) =>
       \A name \in DOMAIN last.f.reply \cap DOMAIN last.prev :
         \A k \in IOStatsFields :
           WrapIs(last.prev[name][k], last.f.reply[name][k],
                  last.ret[name][k])

\* C9 witness: ReadTicks of sda read MaxUint and then 1: the update
\* returned 2.
C9_Witness ==
  /\ last.fn = "diskio" /\ ~last.err
  /\ "sda" \in DOMAIN last.prev /\ "sda" \in DOMAIN last.ret
  /\ last.prev["sda"]["ReadTicks"] = MaxUint
  /\ last.f.reply["sda"]["ReadTicks"] = 1
  /\ last.ret["sda"]["ReadTicks"] = 2

\* the reading Nginx.updateStats scanned from an answer of numbers only
NginxReading(reply) == [k \in NginxFields |-> reply[k].n]

\* nginx signals a restart: accepted, handled and requests all fell
NginxRestarted(prev, cur) ==
  /\ cur.Accepted < prev.Accepted
  /\ cur.Handled < prev.Handled
  /\ cur.Requests < prev.Requests

\* C10: when accepted, handled and requests of the new nginx reading are
\* all lower than in the stored last reading, Nginx.updateStats returns
\* the new reading itself and stores it as the last reading.
C10_RestartReturnsRawReading ==
  (/\ last.fn = "nginx" /\ ~last.f.err
   /\ \A k \in NginxFields : IsNum(last.f.reply[k])
   /\ NginxRestarted(last.prev, NginxReading(last.f.reply)))
  => /\ ~last.err
     /\ last.ret = NginxReading(last.f.reply)
     /\ nginxStats = NginxReading(last.f.reply)

\* C10 witness: the three counters fell from MaxUint to 1; the wrapped
\* difference would be 2, the returned value is 1.
C10_Witness ==
  /\ last.fn = "nginx" /\ ~last.err
  /\ last.prev.Accepted = MaxUint /\ last.prev.Handled = MaxUint
  /\ last.prev.Requests = MaxUint
  /\ last.ret.Accepted = 1 /\ last.ret.Handled = 1 /\ last.ret.Requests = 1
  /\ nginxStats.Requests = 1

\* the set of the names of a list
NamesOf(names) == {names[i] : i \in DOMAIN names}

\* the bit position of a name in a registry that holds it
PosIn(reg, name) == (CHOOSE i \in DOMAIN reg : reg[i] = name) - 1

\* a registration of these names is the step taken
Registers(names) ==
  \/ AddServices(names)
  \/ \E kind \in RegistryKinds, f \in RegistryFetches : Register(kind, names, f)

\* C11: a registration panics exactly when the registry would come to hold
\* more than 64 distinct names; a registration that keeps it within 64
\* succeeds and the registry then holds all its names; the registry never
\* holds more than 64 names.
C11_CapacityIsSixtyFour ==
  /\ [](Len(services) <= 64)
  /\ [][\A names \in RegistryLists :
          Registers(names) =>
            IF Cardinality(NamesOf(services) \cup NamesOf(names)) > 64
            THEN phase' = "panicked"
            ELSE /\ phase' = "setup"
                 /\ NamesOf(services') = NamesOf(services) \cup NamesOf(names)]_vars

\* C11 witness: a registration has panicked on the 65th name, the registry
\* holds 64 names.
C11_Witness == phase = "panicked" /\ Len(services) = 64

\* C12: a registration that does not panic leaves every registered name at
\* its position and appends each new name once, also when the list has it
\* twice; the bitmask stored by AddCollector has, for every name of the
\* list that was registered before, the bit of the position that name got
\* when it was first registered.
C12_SameNameSamePosition ==
  [][\A names \in RegistryLists :
       (Registers(names) /\ phase' = "setup") =>
         LET before == NamesOf(services)
             after == NamesOf(services')
         IN /\ SubSeq(services', 1, Len(services)) = services
            /\ Cardinality(after) = Len(services')
            /\ NamesOf(names) \subseteq after
            /\ Len(collectors') > Len(collectors) =>
                 \A name \in NamesOf(names) \cap before :
                   PosIn(services, name)
                     \in collectors'[Len(collectors')].services]_vars

\* C12 witness: name 1 was registered by two calls, once by the call that
\* added the collector and once within the first long list; it is at
\* position 0 and the registry holds each name of the long list once.
C12_Witness ==
  /\ phase = "setup" /\ Len(collectors) = 1
  /\ collectors[1].services = {0}
  /\ Len(services) = BlockLen /\ services[1] = ServiceName(1)

\* the service-status query of the running or last scrape succeeded
QueryAnswered == phase = "serving" /\ "systemd" \notin errs /\ pc # "idle"

\* the answer of the query reports the named service as active
ReportedActive(name) ==
  \E i \in DOMAIN units : units[i].Name = name /\ IsActive(units[i])

\* C13: after a successful service-status query, bit i of the active
\* bitmask is set if and only if the service named at registry position i
\* is reported "active" or "reloading"; a service in another state or
\* without a unit in the answer has its bit clear.
C13_BitIffServiceReportedActive ==
  QueryAnswered =>
    \A i \in DOMAIN services :
      (i - 1) \in activeServices <=> ReportedActive(services[i])

\* the goroutine of request r is inside the Collect of collector i
CollectRunning(r, i) == inflight[r].task[i] \in {"running", "updating"}

\* C14: at most one Exporter.Collect is in flight, so the Collect of a
\* collector, and the update of its stored last reading, never runs
\* concurrently with another invocation of itself, also when a request
\* arrives while an earlier scrape is still running.
C14_CollectNeverOverlapsItself ==
  \A r \in InFlight, q \in InFlight :
    r # q => \A i \in 1 .. Len(collectors) :
               ~(CollectRunning(r, i) /\ CollectRunning(q, i))

\* the gauge fields of a redisStats or memcacheStats
GaugeFields == {"MemoryUsed", "MemoryTotal"}

\* C15: every successful update returns the gauges (memory used and total)
\* of the current reading unchanged, never differenced against the previous
\* reading, and does so for every key (server) present in the current
\* reading.
C15_GaugesPassThroughForEveryKey ==
  /\ (last.fn = "redis" /\ ~last.err) =>
       /\ last.ret.MemoryUsed = redisGetUint64(last.f.reply.used_memory)
       /\ last.ret.MemoryTotal = redisGetUint64(last.f.reply.maxmemory)
  /\ (last.fn = "memcache" /\ ~last.err) =>
       \A server \in DOMAIN last.f.reply :
         /\ server \in DOMAIN last.ret
         /\ \A k \in GaugeFields :
              last.ret[server][k] = MemcacheCur(last.f.reply[server])[k]

\* an AddCollector call with these names is the step taken and it returned
AddsCollector(names) ==
  /\ \E kind \in RegistryKinds, f \in RegistryFetches : Register(kind, names, f)
  /\ Len(collectors') = Len(collectors) + 1

\* C16: the bitmask AddCollector stores for the collector has exactly the
\* registry positions of the names passed in the call, whether the call
\* appended the name or found it registered; with no names it stores 0.
C16_StoredMaskIsPositionsOfNames ==
  [][\A names \in RegistryLists :
       AddsCollector(names) =>
         LET reg == services'
         IN collectors'[Len(collectors')].services =
              {PosIn(reg, name) : name \in NamesOf(names)}]_vars

\* C16 witness: a collector registered with a name that was registered
\* before the call (position 0) and a name the call appended (position 2)
C16_Witness ==
  /\ services = <<ServiceName(MaxServices), ServiceName(1),
                  ServiceName(MaxServices + 1)>>
  /\ Len(collectors) = 1
  /\ collectors[1].services = {0, 2}

\* C17: the registry is append-only: across every step of AddServices,
\* AddCollector and Collect the registry before the step is a prefix of the
\* registry after it and the bitmasks stored before are kept, so no name is
\* removed or moved; a step of Collect changes neither the registry nor the
\* stored bitmasks.
C17_RegistryIsAppendOnly ==
  [][/\ Len(services) <= Len(services')
     /\ SubSeq(services', 1, Len(services)) = services
     /\ Len(collectors) <= Len(collectors')
     /\ SubSeq(collectors', 1, Len(collectors)) = collectors
     /\ phase = "serving" => UNCHANGED <<services, collectors>>]_vars

\* C17 witness: names registered by two AddServices calls, a collector
\* registered after them, and a Collect that has run that collector
C17_Witness ==
  /\ services = <<"nginx", "redis">>
  /\ Len(collectors) = 1
  /\ collectors[1].services = {1}
  /\ pc = "wait" /\ task[1] = "done"

\* the last update was a Redis.updateStats whose answer arrived and holds a
\* field that strconv.ParseUint rejects
RedisFieldUnparsable ==
  /\ last.fn = "redis" /\ ~last.f.err
  /\ \E k \in DOMAIN last.f.reply : ~IsNum(last.f.reply[k])

\* C18: when the answer of the backend holds a counter or gauge field that
\* does not parse as an unsigned integer the collection fails: Collect sends
\* no metrics for that scrape and logs the error instead of publishing
\* values computed from a substituted number.
C18_UnparsableFieldFailsCollection ==
  RedisFieldUnparsable =>
    LET out == RedisCollect([ret |-> last.ret, err |-> last.err])
    IN out.samples = {} /\ out.logged

\* main constructs the collector of this kind, to be registered with these
\* names, and the backend answers its first contact with f
Constructs(kind, names, f) == Register(kind, names, f) \/ RegisterExit(kind, f)

\* C19: when an optional collector (nginx, redis, memcache) is configured
\* with a backend that cannot be reached at start-up, the process exits
\* before it listens: the step that constructs the collector ends in exit,
\* never in a registered collector.
C19_UnreachableBackendExits ==
  [][\A kind \in Kinds, names \in NameLists :
       Constructs(kind, names, Unreachable) => phase' = "exited"]_vars

\* C20: in every scrape whose service-status query succeeds, from the point
\* where the collectors are about to be launched on, the sink holds for each
\* registered service one node_service_active sample whose value is 1 if the
\* service is reported "active" or "reloading" and 0 otherwise.
C20_ServiceSamplesMatchReportedState ==
  QueryAnswered =>
    \A i \in DOMAIN services :
      CopiesIn(ServiceSample(services[i],
                             IF ReportedActive(services[i]) THEN 1 ELSE 0),
               sink) = 1

(***************************************************************************)
(* Properties of util.go                                                   *)
(***************************************************************************)
\* C21: the handler BasicAuth returns calls the wrapped handler exactly
\* when the request carries credentials whose username is a configured
\* user and whose password is that user's; every other request is answered
\* with 401 and a WWW-Authenticate header without calling the wrapped
\* handler.
C21_WrappedHandlerIffCredentialsMatch ==
  call.fn = "BasicAuth" =>
    LET match == /\ call.req.ok
                 /\ call.req.username \in DOMAIN call.users
                 /\ call.users[call.req.username] = call.req.password
    IN /\ call.ret.next <=> match
       /\ ~match => /\ call.ret.status = 401
                    /\ "WWW-Authenticate" \in call.ret.header

\* C21 witness: with two users configured a request with the credentials of
\* the second one has been passed on to the wrapped handler
C21_Witness ==
  /\ call.fn = "BasicAuth"
  /\ call.users = [u \in UserNames |-> IF u = "alice" THEN "pw1" ELSE "pw2"]
  /\ call.req = Credentials("bob", "pw2")
  /\ call.ret.next

\* C22: ListenAndServe on a unix URI serves only after it has removed a file
\* found at the socket path, bound a new socket there and set the socket's
\* permissions to 0770; when one of the three fails it returns the error and
\* does not serve.
C22_ServesOnlyAfterPermissionsSet ==
  (call.fn = "ListenAndServe" /\ lpc = "serving" /\ call.ret.scheme = "unix")
    => /\ call.ret.host \in DOMAIN files
       /\ files[call.ret.host] = [kind |-> "socket", mode |-> "0770"]

\* C23: ParseURI maps a URI that starts with "unix:", with or without "//"
\* after it, to the unix transport and the rest as the path, and fails when
\* that path is not absolute; it maps a URI that starts with "tcp://" to the
\* tcp transport and the rest; every other string goes to the tcp transport
\* unchanged.
C23_ParseURIByPrefix ==
  call.fn = "ParseURI" =>
    LET uri == call.uri
        unix(p) == IF IsAbs(p)
                   THEN call.ret = [scheme |-> "unix", host |-> p, err |-> FALSE]
                   ELSE call.ret.err
        tcp(h) == call.ret = [scheme |-> "tcp", host |-> h, err |-> FALSE]
    IN CASE HasPrefix(uri, <<"unix", ":", "/", "/">>) -> unix(Drop(uri, 4))
         [] HasPrefix(uri, <<"unix", ":">>) -> unix(Drop(uri, 2))
         [] HasPrefix(uri, <<"tcp", ":", "/", "/">>) -> tcp(Drop(uri, 4))
         [] OTHER -> tcp(uri)

\* C23 witness: "unix:///a" has been parsed to the unix transport and "/a"
C23_Witness ==
  /\ call.fn = "ParseURI"
  /\ call.uri = <<"unix", ":", "/", "/", "/", "a">>
  /\ call.ret = [scheme |-> "unix", host |-> <<"/", "a">>, err |-> FALSE]

\* the metrics (source, name, label) a returned scrape has to hold: the
\* children of e.service and the metrics of every collector that was started
\* and whose collection succeeded
ExpectedInSink ==
  {<<"exporter", "node_service_active", <<name>>>> : name \in DOMAIN serviceGauge}
  \cup UNION {{<<Kind(i), m[1], m[2]>> : m \in MetricsOf(Kind(i))}
                : i \in {j \in 1 .. Len(collectors) :
                           Launched(j) /\ fetch[j] = "ok"}}

\* C24: whatever the order in which the collectors of one scrape run, the
\* sink of a returned scrape holds exactly the service-activity samples and
\* the samples of each started collector whose collection succeeded, each
\* once: none is lost or duplicated, none comes from a collector that was
\* not started.
C24_SinkHoldsEachSampleOnce ==
  ScrapeReturned =>
    LET got == BagToSet(sink)
    IN /\ \A x \in got : CopiesIn(x, sink) = 1
       /\ {<<x.src, x.name, x.label>> : x \in got} = ExpectedInSink
       /\ Cardinality(got) = Cardinality(ExpectedInSink)

\* C24 witness: a returned scrape in which two collectors ran and succeeded
\* and a third was not started
C24_Witness ==
  /\ ScrapeReturned /\ Len(collectors) = 3
  /\ \E i \in 1 .. 3 :
       /\ ~Launched(i)
       /\ \A j \in (1 .. 3) \ {i} : task[j] = "done" /\ fetch[j] = "ok"

\* request r has finished the Collect of collector i and its fetch succeeded
CollectedOK(r, i) ==
  inflight[r].task[i] = "done" /\ ~inflight[r].answer[i].err

\* the hits counter request r read from the backend for collector i, and the
\* delta its Redis.Collect added to redis_key_total{hits}
HitsRead(r, i) == redisGetUint64(inflight[r].answer[i].reply.keyspace_hits)
HitsAdded(r, i) == Sub64(HitsRead(r, i), inflight[r].seen[i].KeyHits)

\* C25: when two scrapes overlap, no increment of a backend counter is
\* counted twice or lost: where both started from the same stored reading of
\* a counter that does not decrease, the deltas the two scrapes add sum up to
\* the latest reading minus that stored reading.
C25_OverlapCountsIncrementsOnce ==
  \A r \in InFlight, q \in InFlight :
    \A i \in 1 .. Len(collectors) :
      (/\ r # q
       /\ CollectedOK(r, i) /\ CollectedOK(q, i)
       /\ inflight[r].seen[i] = inflight[q].seen[i]
       /\ HitsRead(r, i) >= inflight[r].seen[i].KeyHits
       /\ HitsRead(q, i) >= inflight[q].seen[i].KeyHits)
      => LET latest == IF HitsRead(r, i) >= HitsRead(q, i)
                       THEN HitsRead(r, i) ELSE HitsRead(q, i)
         IN Add64(HitsAdded(r, i), HitsAdded(q, i)) =
              Sub64(latest, inflight[r].seen[i].KeyHits)

(***************************************************************************)
(* Properties of the serialized runs of Redis.updateStats                  *)
(***************************************************************************)
\* C26: with serialized scrapes and backend counters that never decrease,
\* after any sequence of Redis collections, failed fetches included, the sum
\* of the deltas the successful updates returned equals the latest reading
\* read successfully minus the reading NewRedis stored; a failed fetch leaves
\* the stored reading as it was.
C26_DeltasSumToLatestMinusBaseline ==
  tally # NoTally =>
    /\ tally.KeyHits = redisStats.KeyHits - tally.baseline.KeyHits
    /\ tally.KeyMisses = redisStats.KeyMisses - tally.baseline.KeyMisses

\* a successful update followed a failed fetch and covered the gap: the
\* counter moved on since NewRedis
C26_Witness ==
  /\ tally # NoTally /\ tally.covered /\ ~tally.failed
  /\ tally.KeyHits > 1 /\ tally.baseline.KeyHits > 0

(***************************************************************************)
(* The values passed to Add on the counters                                *)
(***************************************************************************)
\* math.Max(0.0, x)
Max0(x) == IF x > 0 THEN x ELSE 0

\* the values of a function
Values(fn) == {fn[x] : x \in DOMAIN fn}

\* the CPU times of the returned difference, per mode of node_cpu
\* (node.go:97-101), before math.Max
NodeCPUTimes(ret) ==
  [mode \in CPUModes |->
     CASE mode = "system" -> ret.System
       [] mode = "user" -> ret.User + ret.Nice
       [] mode = "iowait" -> ret.Iowait
       [] mode = "idle" -> ret.Idle
       [] mode = "rest" -> ret.IRQ + ret.SoftIRQ + ret.Steal + ret.Guest
                           + ret.GuestNice]

\* mutant of NodeCPUAdds: the difference is added as it is
NodeCPUAddsUnclamped(ret) == NodeCPUTimes(ret)

\* what Node.Collect adds to node_cpu per mode (node.go:97-101)
NodeCPUAdds(ret) == [mode \in CPUModes |-> Max0(NodeCPUTimes(ret)[mode])]

\* what Node.Collect adds to node_net per interface and direction
\* (node.go:131-136)
NodeNetAdds(ret) ==
  [p \in {netif \in DOMAIN ret : netif # "lo"} \X {"rx", "tx"} |->
     Max0(IF p[2] = "rx" THEN ret[p[1]].RxBytes ELSE ret[p[1]].TxBytes)]

\* what Node.Collect adds to node_diskio per device and type, in
\* milliseconds: the division by 1000.0 keeps the sign (node.go:163-168)
NodeDiskIOAdds(ret) ==
  [p \in (DOMAIN ret) \X {"total", "read", "write"} |->
     CASE p[2] = "total" -> ret[p[1]].IOsTotalTicks
       [] p[2] = "read" -> ret[p[1]].ReadTicks
       [] p[2] = "write" -> ret[p[1]].WriteTicks]

\* what the Collect that ran the update l passes to Add on its counters
Adds(l) ==
  CASE l.fn = "redis" -> {l.ret.KeyHits, l.ret.KeyMisses}
    [] l.fn = "nginx" -> {Max0(l.ret.Requests)}
    [] l.fn = "memcache" ->
         UNION {{l.ret[server].KeyHits, l.ret[server].KeyMisses}
                  : server \in DOMAIN l.ret}
    [] l.fn = "opcache" -> {l.ret.KeyHits, l.ret.KeyMisses}
    [] l.fn = "cpu" -> Values(NodeCPUAdds(l.ret))
    [] l.fn = "net" -> Values(NodeNetAdds(l.ret))
    [] l.fn = "diskio" -> Values(NodeDiskIOAdds(l.ret))

\* C27: every value a collector passes to Add on a counter is non-negative,
\* whatever the previous and the current reading are, decreased readings
\* included; a CPU time that decreased is added as 0.
C27_CounterAddsNonNegative ==
  (last # NoUpdate /\ ~last.err) =>
    /\ \A v \in Adds(last) : v >= 0
    /\ last.fn = "cpu" =>
         \A mode \in CPUModes :
           NodeCPUTimes(last.ret)[mode] < 0 => NodeCPUAdds(last.ret)[mode] = 0

\* updateCPUStat ran on a reading whose times are below the stored ones
C27_Witness ==
  /\ last # NoUpdate /\ ~last.err /\ last.fn = "cpu"
  /\ \A mode \in CPUModes : NodeCPUTimes(last.ret)[mode] < 0

(***************************************************************************)
(* What a Collect may change                                               *)
(***************************************************************************)
\* the step taken is the Collect of collector i, from its start to wg.Done
Collecting(i) ==
  /\ i \in DOMAIN task /\ i \in DOMAIN task'
  /\ task[i] = "running" /\ task'[i] = "done"

\* the step taken changes the stored last reading of the collector of kind
ReadingChanges(kind) == StoredReading(kind)' # StoredReading(kind)

\* C28: the Collect of a collector changes only the stored last reading of
\* that collector: the registry, the stored bitmasks and the last reading
\* of every other collector stay as they are; and the last reading of a
\* collector changes only while main constructs it or in its own Collect.
C28_CollectChangesOwnReadingOnly ==
  [][(\A i \in DOMAIN task :
        Collecting(i) =>
          /\ services' = services /\ collectors' = collectors
          /\ \A kind \in Kinds \ {Kind(i)} : ~ReadingChanges(kind))
     /\ (\A kind \in Kinds :
           ReadingChanges(kind) =>
             \/ /\ phase = "setup" /\ kind \notin Registered
                /\ \A other \in Kinds \ {kind} : ~ReadingChanges(other)
             \/ \E j \in DOMAIN task : Kind(j) = kind /\ Collecting(j))]_vars

\* the Collect of redis has stored a reading while the collector registered
\* next to it has not run yet in this scrape
C28_Witness ==
  /\ pc = "wait" /\ Len(collectors) >= 2
  /\ \E i \in DOMAIN task :
       /\ Kind(i) = "redis" /\ task[i] = "done" /\ fetch[i] = "ok"
       /\ redisStats.KeyHits > 0
  /\ \E j \in DOMAIN task : task[j] = "running"

\* C29: a registration that fails because the registry is full leaves the
\* registry and the list of registered collectors exactly as they were
\* before the call: none of its names has been appended and no collector has
\* been added.
C29_FailedRegistrationChangesNothing ==
  [][(phase = "setup" /\ phase' = "panicked") =>
       (services' = services /\ collectors' = collectors)]_vars

\* C30: Node.updateNetStats returns a delta for an interface exactly when the
\* interface is in the previous and in the current reading, and the delta is
\* then current minus previous; an interface absent from the current reading
\* gets none, an interface seen for the first time gets none.
C30_NetDeltaOnlyForInterfacesInBoth ==
  (last # NoUpdate /\ last.fn = "net" /\ ~last.err) =>
    /\ DOMAIN last.ret = DOMAIN last.prev \cap DOMAIN last.f.reply
    /\ \A netif \in DOMAIN last.ret :
         \A k \in NetDevFields :
           last.ret[netif][k] = Sub64(last.f.reply[netif][k], last.prev[netif][k])

(***************************************************************************)
(* First observation of a key                                              *)
(***************************************************************************)
\* the keys (servers, interfaces, devices) of the answer of the last update
\* that the stored reading did not hold before it
FirstSeen == DOMAIN last.f.reply \ DOMAIN last.prev

\* C31: when an update meets a key (memcache server, network interface, disk
\* device) for the first time, the stored reading of that key becomes the
\* raw reading, and the update returns for that key either the raw reading
\* unmodified or no entry: never a difference against another reading.
C31_FirstObservationIsRawOrAbsent ==
  /\ (last.fn = "memcache" /\ ~last.err) =>
       \A server \in FirstSeen :
         /\ memcacheStats[server] = MemcacheCur(last.f.reply[server])
         /\ server \notin DOMAIN last.ret
  /\ (last.fn = "net" /\ ~last.err) =>
       \A netif \in FirstSeen :
         /\ netStats[netif] = last.f.reply[netif]
         /\ netif \notin DOMAIN last.ret
  /\ (last.fn = "diskio" /\ ~last.err) =>
       \A name \in FirstSeen :
         /\ diskioStats[name] = last.f.reply[name]
         /\ name \in DOMAIN last.ret => last.ret[name] = last.f.reply[name]

\* a device is met for the first time while another device has a stored
\* reading that differs from its raw reading
C31_Witness ==
  /\ last.fn = "diskio" /\ ~last.err
  /\ \E name \in FirstSeen, other \in DOMAIN last.prev :
       /\ last.prev[other] # last.f.reply[name]
       /\ last.ret[name].ReadTicks > 0

\* C32: the delta of a counter reported by the first scrape after the
\* collector was constructed is computed relative to zero: it is the raw
\* cumulative reading of that scrape, which becomes the stored reading.
C32_FirstScrapeDeltaIsRawReading ==
  (tally # NoTally /\ tally.collects = "one" /\ ~tally.failed) =>
    /\ tally.KeyHits = redisStats.KeyHits
    /\ tally.KeyMisses = redisStats.KeyMisses

(***************************************************************************)
(* One Collect per started collector and scrape                            *)
(***************************************************************************)
\* the step taken is the service-status query that begins a scrape, answered
\* or failed
ScrapeBegins == phase = "serving" /\ pc = "idle"

C34_StartedScrapeCompletes ==
  (phase = "serving" /\ pc # "idle") ~> (pc = "idle")

\* a scrape has returned in which every registered collector was started and
\* every backend call failed
C34_Witness ==
  /\ ScrapeReturned /\ Len(collectors) >= 2
  /\ \A i \in DOMAIN task : task[i] = "done" /\ fetch[i] = "err"

\* C35: after any sequence of AddServices and AddCollector calls the registry
\* holds no name twice, distinct names have distinct bit positions (the bit
\* position of each name is its own index), and every stored bitmask has
\* bits only at positions below the length of the registry.
C35_RegistryWellFormed ==
  /\ \A i \in DOMAIN services, j \in DOMAIN services :
       services[i] = services[j] => i = j
  /\ \A i \in DOMAIN services : PosIn(services, services[i]) = i - 1
  /\ \A c \in DOMAIN collectors :
       collectors[c].services \subseteq 0 .. (Len(services) - 1)

\* the registry is full and a collector is registered whose bitmask has the
\* bit of the last position
C35_Witness ==
  /\ Len(services) = MaxServices
  /\ \E c \in DOMAIN collectors : (MaxServices - 1) \in collectors[c].services

\* C36: a successful Memcache.updateStats replaces the stored reading of
\* exactly the servers of the current answer and leaves the stored reading
\* of every other server as it was; the delta of a server is computed from
\* that server's own stored and current reading, so a server that was away
\* is differenced against its own last stored reading.  A failed one leaves
\* every stored reading as it was.
C36_MemcacheUpdatesAnsweringServersOnly ==
  last.fn = "memcache" =>
    IF last.err THEN memcacheStats = last.prev
    ELSE /\ DOMAIN memcacheStats = DOMAIN last.prev \cup DOMAIN last.f.reply
         /\ \A server \in DOMAIN last.f.reply :
              memcacheStats[server] = MemcacheCur(last.f.reply[server])
         /\ \A server \in DOMAIN last.prev \ DOMAIN last.f.reply :
              memcacheStats[server] = last.prev[server]
         /\ \A server \in DOMAIN last.ret :
              LET cur == MemcacheCur(last.f.reply[server])
                  prev == last.prev[server]
              IN /\ last.ret[server].KeyHits = Sub64(cur.KeyHits, prev.KeyHits)
                 /\ last.ret[server].KeyMisses =
                      Sub64(cur.KeyMisses, prev.KeyMisses)

\* one server answered and got a delta while another one, with a stored
\* reading that differs, did not answer
C36_Witness ==
  /\ last.fn = "memcache" /\ ~last.err
  /\ \E here \in DOMAIN last.ret, away \in DOMAIN last.prev \ DOMAIN last.f.reply :
       /\ last.prev[away] # last.prev[here]
       /\ last.ret[here].KeyHits > 0
       /\ memcacheStats[away].KeyHits > 0

(***************************************************************************)
(* Properties of URIGlobs.Get                                              *)
(***************************************************************************)
\* the elements of a sequence
Elements(seq) == {seq[k] : k \in DOMAIN seq}

\* the matches of the patterns from the k-th on, pattern after pattern
RECURSIVE MatchesFrom(_, _, _)
MatchesFrom(globs, k, fs) ==
  IF k > Len(globs) THEN <<>>
  ELSE Glob(fs, globs[k]) \o MatchesFrom(globs, k + 1, fs)

UnitNames(reply) == [i \in DOMAIN reply |-> reply[i].Name]

\* C38: a scrape asks systemd once, for all registered names together and
\* before it starts a collector: the answer and the bitmask are set by the
\* step that begins the scrape and by no later step of it, the answer names
\* every registered service, the bitmask is the one computed from that
\* answer whatever the bitmask of the scrape before was, and the loop that
\* starts the collectors, however many there are, decides each of them with
\* that bitmask.
C38_OneBatchedQueryPerScrape ==
  [][ /\ (pc # "idle" => (units' = units /\ activeServices' = activeServices))
      /\ ((pc = "idle" /\ pc' = "launch") =>
            (/\ UnitNames(units') = services
             /\ activeServices' = ActiveBits(units')
             /\ \A i \in 1 .. Len(collectors) : task'[i] = "idle"))
      /\ ((pc = "launch" /\ pc' = "wait") =>
            (/\ activeServices = ActiveBits(units)
             /\ \A j \in 1 .. Len(collectors) :
                  task'[j] = "running" <=>
                    Launches(collectors[j].services, ActiveBits(units))))
    ]_vars

\* a scrape with three collectors has asked once and started some of the
\* collectors and not the others
C38_Witness ==
  /\ phase = "serving" /\ pc = "wait"
  /\ Len(collectors) = Len(KindOrder)
  /\ UnitNames(units) = services /\ Len(services) > 1
  /\ \E i, j \in 1 .. Len(collectors) : task[i] = "running" /\ task[j] = "idle"

====
